---- MODULE Spec2Model ----
(***************************************************************************)
(* Story Sentinel: the upgrade runner (sentinel/runner.py) and the upgrade *)
(* scheduler (sentinel/scheduler.py) as state machines.                    *)
(*                                                                         *)
(* Spec      : one UpgradeRunner performing perform_upgrade calls, step by *)
(*             step (pre-checks, native script or the legacy sequence,     *)
(*             rollback, the finally block that records the attempt).      *)
(* SchedSpec : one UpgradeScheduler and the operations on its collection.  *)
(***************************************************************************)
EXTENDS Integers, Sequences, FiniteSets, TLC

\* ------------------------------------------------------------------ bounds
\* perform_upgrade calls made by the runner in one run of the model
MaxAttempts == 2

\* entries ever added to the schedule in one run of the model
MaxEntries == 2

\* statements of save_schedule that raise, and kills of the process, in one run
MaxFaults == 1

\* ------------------------------------------------------- program constants
\* runner.py:154  if system_health.checks['disk_free_gb'] < 5.0
MinDiskFreeGb == 5

\* scheduler.py:106-108  base_duration, in minutes
DefaultDuration == 10
StoryDuration == 15
\* scheduler.py:145, 152  the lead and the duration of a governance upgrade
GovernanceLead == 30
GovernanceDuration == 30
\* scheduler.py:181  the buffer after a conflicting upgrade
ConflictBuffer == 30
\* scheduler.py:169  the maintenance window opens at 02:00 UTC
WindowHour == 2

Components == {"story", "story_geth"}

\* Version strings printed by an installed binary ("" is a binary that does
\* not run: config.get_current_versions reads an empty output).
InitialVersion == "1.0.0"
TargetVersions == {"1.1.0"}
PartialBinary == ""

\* systemctl is-active
ServiceStates == {"active", "inactive", "failed"}

VARIABLES
    \* ---- UpgradeRunner
    upgrade_history,   \* self.upgrade_history: sequence of upgrade records
    history_file,      \* upgrade_history.json: [valid, data]
    pc,                \* position of the runner inside perform_upgrade
    call,              \* arguments of the current / last perform_upgrade call
    upgrade_record,    \* the local dict upgrade_record of the call
    result,            \* the (success, message) returned by the call
    trace,             \* steps the call has run so far, with their results
    fail_msg,          \* the exception text a legacy step is about to raise
    installed,         \* binary installed per component (its version output)
    service,           \* systemd state per component
    backup_dirs,       \* backup directories: set of [component, stamp, binary]
    temp_binary,       \* the file _download_binary returned
    clock,             \* datetime.now(), a logical clock
    subject,           \* the component this run of the program upgrades
    at_entry,          \* binaries, units and backups as the current call found them
    \* ---- history bookkeeping for the claims
    prior_history,     \* the history loaded at construction
    calls,             \* perform_upgrade calls started
    \* ---- UpgradeScheduler
    scheduled_upgrades, \* self.scheduled_upgrades: sequence of entries
    schedule_file,      \* upgrade_schedule.json: [exists, data]
    wall_clock,         \* datetime.now(), minutes since midnight UTC of day 0
    added,              \* entries added so far (gives each entry its identity)
    writable,           \* whether writes into config.log_dir succeed in this run
    ret,                \* the last scheduler operation, its arguments and result
    \* ---- save_schedule, step by step
    save_pc,            \* where save_schedule stands
    temp_file,          \* upgrade_schedule.tmp: [exists, data, complete]
    file_complete,      \* whether the schedule file holds a whole JSON document
    old_file,           \* the schedule file as it was when the save began
    save_failed,        \* whether the save in progress has logged an exception
    faults,             \* exceptions raised in save_schedule and kills so far
    \* ---- the processes
    peer,               \* a second `upgrade` process for the same component: [pc, version]
    shutdown,           \* <<>>, or <<the step at which SIGINT or SIGTERM arrived>>
    \* ---- the functions without state (version comparison, health verdicts)
    input,              \* the object and the arguments of the call under study
    output              \* <<>>, or <<the value the call returned>>

runnerVars == <<upgrade_history, history_file, pc, call, upgrade_record, result,
                trace, fail_msg, installed, service, backup_dirs, temp_binary,
                clock, subject, at_entry, prior_history, calls>>

schedVars == <<scheduled_upgrades, schedule_file, wall_clock, added, writable, ret>>

saveVars == <<save_pc, temp_file, file_complete, old_file, save_failed, faults>>

procVars == <<peer, shutdown>>

callVars == <<input, output>>

vars == <<runnerVars, schedVars, saveVars, procVars, callVars>>

\* ================================================================== runner

\* A record that an earlier process left in upgrade_history.json.
OldRecord ==
    [component |-> "story", from_version |-> "0.9.0", to_version |-> InitialVersion,
     start_time |-> 0, dry_run |-> FALSE, success |-> TRUE, error |-> <<>>,
     end_time |-> <<0>>, backup_path |-> <<>>]

\* _load_upgrade_history: the parsed file, or [] when it is absent or unreadable
LoadUpgradeHistory(file) == IF file.valid THEN file.data ELSE <<>>

\* _save_upgrade_history: json.dump of the whole list; a failure is logged only
SaveUpgradeHistory(file, history, ok) ==
    IF ok THEN [valid |-> TRUE, data |-> history] ELSE file

\* perform_upgrade, the dict built before the try block
NewUpgradeRecord(component, version, dry_run, from_version, now) ==
    [component |-> component, from_version |-> from_version, to_version |-> version,
     start_time |-> now, dry_run |-> dry_run, success |-> FALSE, error |-> <<>>,
     end_time |-> <<>>, backup_path |-> <<>>]

\* config.get_current_versions().get(component)
CurrentVersion(component) == installed[component]

\* _pre_upgrade_checks on the report of check_all: the system report must be
\* there and healthy, and the free disk at or above the floor; the sync state
\* of the node is only logged.
PreUpgradeChecks(health) ==
    /\ health.system_present
    /\ health.system_healthy
    /\ ~(health.disk_free_gb < MinDiskFreeGb)

HealthInputs ==
    [system_present : BOOLEAN, system_healthy : BOOLEAN, disk_free_gb : {4, 20}]

Count(step) == Cardinality({i \in DOMAIN trace : trace[i].step = step})

Ran(step, ok) == \E i \in DOMAIN trace : trace[i] = [step |-> step, ok |-> ok]

Log(step, ok) == Append(trace, [step |-> step, ok |-> ok])

\* Values of the locals of perform_upgrade while no call is running
NoCall == [component |-> "story", version |-> "1.1.0", dry_run |-> FALSE]
NoResult == [success |-> FALSE, message |-> ""]
NoFile == [exists |-> FALSE, binary |-> PartialBinary]

NoPeer == [pc |-> "idle", version |-> InitialVersion]

RunnerInit ==
    /\ history_file \in {[valid |-> TRUE, data |-> <<>>],
                         [valid |-> TRUE, data |-> <<OldRecord>>]}
    /\ upgrade_history = LoadUpgradeHistory(history_file)
    /\ prior_history = upgrade_history
    /\ pc = "idle"
    /\ call = NoCall
    /\ upgrade_record = OldRecord
    /\ result = NoResult
    /\ trace = <<>>
    /\ fail_msg = ""
    /\ installed = [c \in Components |-> InitialVersion]
    /\ service = [c \in Components |-> "active"]
    /\ backup_dirs = {}
    /\ temp_binary = NoFile
    /\ clock = 1
    /\ subject \in Components
    /\ at_entry = [installed |-> installed, service |-> service, backup_dirs |-> backup_dirs]
    /\ calls = 0
    /\ peer = NoPeer
    /\ shutdown = <<>>

\* ---- perform_upgrade: entry (runner.py:55-63)
PerformUpgrade(component, version, dry_run) ==
    /\ pc = "idle"
    /\ component = subject
    /\ calls < MaxAttempts
    /\ call' = [component |-> component, version |-> version, dry_run |-> dry_run]
    /\ upgrade_record' = NewUpgradeRecord(component, version, dry_run,
                                          CurrentVersion(component), clock)
    /\ clock' = clock + 1
    /\ calls' = calls + 1
    /\ UNCHANGED <<trace, fail_msg, result, temp_binary>>
    /\ pc' = "pre_check"
    /\ UNCHANGED <<upgrade_history, history_file, installed, service, backup_dirs,
                   prior_history, subject, at_entry, schedVars, saveVars, procVars, callVars>>

\* the except branch of perform_upgrade (runner.py:92-98)
ExceptRecord(rec, e, now) ==
    [rec EXCEPT !.success = FALSE, !.error = <<e>>, !.end_time = <<now>>]

\* the success branches (runner.py:82-83 and 213-214)
SuccessRecord(rec, now) == [rec EXCEPT !.success = TRUE, !.end_time = <<now>>]

\* the dry-run branch (runner.py:72-75): success is set, end_time is not
DryRunRecord(rec) == [rec EXCEPT !.success = TRUE]

SuccessMessage(component, version) ==
    "Successfully upgraded " \o component \o " to " \o version

\* What happens to an exception that reaches perform_upgrade's except branch
RaiseInPerformUpgrade(e) ==
    /\ upgrade_record' = ExceptRecord(upgrade_record, e, clock)
    /\ clock' = clock + 1
    /\ result' = [success |-> FALSE, message |-> "Upgrade failed: " \o e]
    /\ pc' = "finally"

\* Mutants of AfterPreCheck: a failed pre-check that does not abort; a dry run
\* that goes on into the upgrade.
AfterPreCheck_NoAbort(passed, dry_run, script_exists) ==
    IF dry_run THEN "dry_run"
    ELSE IF script_exists THEN "native"
    ELSE "backup"

AfterPreCheck_NoDryRun(passed, dry_run, script_exists) ==
    IF ~passed THEN "abort"
    ELSE IF script_exists THEN "native"
    ELSE "backup"

\* Where perform_upgrade goes after _pre_upgrade_checks returned `passed`
\* (runner.py:69-90)
AfterPreCheck(passed, dry_run, script_exists) ==
    IF ~passed THEN "abort"
    ELSE IF dry_run THEN "dry_run"
    ELSE IF script_exists THEN "native"
    ELSE "backup"

\* ---- _pre_upgrade_checks and the branch after it; check_all may raise
\* (psutil calls of _check_system_resources are outside any try)
PreCheck(health, probe_raises, script_exists) ==
    /\ pc = "pre_check"
    /\ IF probe_raises
       THEN /\ trace' = Log("pre_check_raised", FALSE)
            /\ RaiseInPerformUpgrade("health probe error")
       ELSE LET passed == PreUpgradeChecks(health)
                branch == AfterPreCheck(passed, call.dry_run, script_exists)
            IN /\ trace' = Log("pre_check", passed)
               /\ CASE branch = "abort" ->
                         RaiseInPerformUpgrade("Pre-upgrade checks failed")
                    [] branch = "dry_run" ->
                         /\ upgrade_record' = DryRunRecord(upgrade_record)
                         /\ result' = [success |-> TRUE,
                                       message |-> "Dry run completed successfully"]
                         /\ pc' = "finally"
                         /\ clock' = clock
                    [] OTHER ->
                         /\ pc' = branch
                         /\ UNCHANGED <<upgrade_record, result, clock>>
    /\ UNCHANGED <<upgrade_history, history_file, call, fail_msg, installed, service,
                   backup_dirs, temp_binary, prior_history, calls, subject, at_entry, schedVars, saveVars, procVars, callVars>>

\* _run_native_upgrade: the message for each way the script can end
NativeMessage(outcome) ==
    CASE outcome = "ok" -> "Upgrade completed successfully"
      [] outcome = "stderr" -> "script error output"
      [] outcome = "empty" -> "Upgrade script failed"
      [] outcome = "timeout" -> "Upgrade timed out after 30 minutes"
      [] OTHER -> "Failed to execute upgrade script: error"

NativeOutcomes == {"ok", "stderr", "empty", "timeout", "exception"}

\* ---- the native path (runner.py:79-87): the script stops the service, swaps
\* the binary and starts the service; when it fails it may have done part of it
NativeUpgrade(outcome, touched) ==
    /\ pc = "native"
    /\ trace' = Log("native", outcome = "ok")
    /\ IF outcome = "ok"
       THEN /\ installed' = [installed EXCEPT ![call.component] = call.version]
            /\ service' = [service EXCEPT ![call.component] = "active"]
            /\ upgrade_record' = SuccessRecord(upgrade_record, clock)
            /\ clock' = clock + 1
            /\ result' = [success |-> TRUE,
                          message |-> SuccessMessage(call.component, call.version)]
            /\ pc' = "finally"
       ELSE /\ IF touched
               THEN /\ installed' = [installed EXCEPT ![call.component] = call.version]
                    /\ service' = [service EXCEPT ![call.component] = "failed"]
               ELSE UNCHANGED <<installed, service>>
            /\ RaiseInPerformUpgrade(NativeMessage(outcome))
    /\ UNCHANGED <<upgrade_history, history_file, call, fail_msg, backup_dirs,
                   temp_binary, prior_history, calls, subject, at_entry, schedVars, saveVars, procVars, callVars>>


\* ---- _perform_legacy_upgrade (runner.py:173-219)
\* Its except branch (218-219) turns every exception of the sequence into the
\* return value (False, str(e)); upgrade_record is not touched there.
LegacyFailure(msg) ==
    /\ result' = [success |-> FALSE, message |-> msg]
    /\ pc' = "finally"
    /\ UNCHANGED <<upgrade_record, clock>>

\* _create_backup copies the installed binary into a directory named after the
\* component and the time (runner.py:226-236)
BackupDir(component, now, binary) ==
    [component |-> component, stamp |-> now, binary |-> binary]

CreateBackup(ok) ==
    /\ pc = "backup"
    /\ trace' = Log("backup", ok)
    /\ IF ok
       THEN /\ backup_dirs' = backup_dirs \cup
                   {BackupDir(call.component, clock, installed[call.component])}
            /\ upgrade_record' =
                   [upgrade_record EXCEPT !.backup_path = <<[component |-> call.component,
                                                            stamp |-> clock]>>]
            /\ clock' = clock + 1
            /\ pc' = "download"
            /\ UNCHANGED result
       ELSE /\ LegacyFailure("backup error")
            /\ UNCHANGED backup_dirs
    /\ UNCHANGED <<upgrade_history, history_file, call, fail_msg, installed, service,
                   temp_binary, prior_history, calls, subject, at_entry, schedVars, saveVars, procVars, callVars>>

\* The binaries a release archive (or a source build) can hold
DownloadedBinaries(version) == {version \o "-stable", "1.0.5"}

\* _download_binary / _build_from_source return None, or a path inside a
\* tempfile.TemporaryDirectory. The directory is removed when its with block is
\* left, that is before the path is returned (kept = FALSE); it stays only
\* when TemporaryDirectory is replaced by a stand-in that does not clean up,
\* as tests/test_runner.py does (kept = TRUE).
DownloadBinary(found, kept, binary) ==
    /\ pc = "download"
    /\ trace' = Log("download", found)
    /\ IF found
       THEN /\ temp_binary' = [exists |-> kept, binary |-> binary]
            /\ pc' = "verify"
            /\ UNCHANGED <<result, upgrade_record, clock>>
       ELSE /\ LegacyFailure("Failed to download binary")
            /\ UNCHANGED temp_binary
    /\ UNCHANGED <<upgrade_history, history_file, call, fail_msg, installed, service,
                   backup_dirs, prior_history, calls, subject, at_entry, schedVars, saveVars, procVars, callVars>>

\* _verify_binary: os.access(path, X_OK) and `path version` exiting with 0
VerifyBinaryResult(file, version_runs) == file.exists /\ version_runs

VerifyBinary(version_runs) ==
    /\ pc = "verify"
    /\ LET ok == VerifyBinaryResult(temp_binary, version_runs)
       IN /\ trace' = Log("verify", ok)
          /\ IF ok
             THEN /\ pc' = "stop"
                  /\ UNCHANGED <<result, upgrade_record, clock>>
             ELSE LegacyFailure("Binary verification failed")
    /\ UNCHANGED <<upgrade_history, history_file, call, fail_msg, installed, service,
                   backup_dirs, temp_binary, prior_history, calls, subject, at_entry, schedVars, saveVars, procVars, callVars>>

\* _stop_service: systemctl stop, then is-active must print "inactive"
\* (runner.py:401-438). A unit that is in the failed state stays failed.
StateAfterStop(state, rc_ok) ==
    IF ~rc_ok THEN state
    ELSE IF state = "failed" THEN "failed" ELSE "inactive"

StopResult(state, rc_ok) == rc_ok /\ StateAfterStop(state, rc_ok) = "inactive"

\* _start_service: systemctl start, then is-active must print "active"
\* (runner.py:468-505)
StateAfterStart(state, rc_ok, comes_up) ==
    IF state = "active" THEN "active"
    ELSE IF rc_ok /\ comes_up THEN "active" ELSE "failed"

StartResult(state, rc_ok, comes_up) ==
    rc_ok /\ StateAfterStart(state, rc_ok, comes_up) = "active"

StopService(rc_ok) ==
    /\ pc = "stop"
    /\ LET ok == StopResult(service[call.component], rc_ok)
       IN /\ trace' = Log("stop", ok)
          /\ service' = [service EXCEPT
                           ![call.component] = StateAfterStop(@, rc_ok)]
          /\ IF ok
             THEN /\ pc' = "replace"
                  /\ UNCHANGED <<result, upgrade_record, clock>>
             ELSE LegacyFailure("Failed to stop service")
    /\ UNCHANGED <<upgrade_history, history_file, call, fail_msg, installed,
                   backup_dirs, temp_binary, prior_history, calls, subject, at_entry, schedVars, saveVars, procVars, callVars>>

\* _replace_binary: shutil.copy2(new, target); an exception is caught and the
\* target may be left half written (runner.py:440-466)
ReplaceBinary(ok, half_written) ==
    /\ pc = "replace"
    /\ LET done == ok /\ temp_binary.exists
       IN /\ trace' = Log("replace", done)
          /\ IF done
             THEN /\ installed' = [installed EXCEPT ![call.component] = temp_binary.binary]
                  /\ pc' = "start"
                  /\ UNCHANGED <<result, upgrade_record, clock>>
             ELSE /\ installed' = [installed EXCEPT ![call.component] =
                                      IF half_written /\ temp_binary.exists
                                      THEN PartialBinary ELSE @]
                  /\ LegacyFailure("Failed to replace binary")
    /\ UNCHANGED <<upgrade_history, history_file, call, fail_msg, service,
                   backup_dirs, temp_binary, prior_history, calls, subject, at_entry, schedVars, saveVars, procVars, callVars>>

\* Mutant of AfterStartService: the raise without the rollback before it.
AfterStartService_NoRollback(ok) == IF ok THEN "post_verify" ELSE "raise"

\* Where the legacy sequence goes after _start_service (runner.py:200-204)
AfterStartService(ok) == IF ok THEN "post_verify" ELSE "rb_stop"

StartService(rc_ok, comes_up) ==
    /\ pc = "start"
    /\ LET ok == StartResult(service[call.component], rc_ok, comes_up)
           next == AfterStartService(ok)
       IN /\ service' = [service EXCEPT
                           ![call.component] = StateAfterStart(@, rc_ok, comes_up)]
          /\ CASE next = "post_verify" ->
                    /\ trace' = Log("start", ok)
                    /\ pc' = next
                    /\ UNCHANGED <<fail_msg, result, upgrade_record, clock>>
               [] next = "rb_stop" ->
                    \* self._rollback(component, backup_path), then the raise
                    /\ trace' = Log("start", ok) \o
                                   <<[step |-> "rollback_begin", ok |-> TRUE]>>
                    /\ fail_msg' = "Failed to start service after upgrade"
                    /\ pc' = next
                    /\ UNCHANGED <<result, upgrade_record, clock>>
               [] OTHER ->
                    /\ trace' = Log("start", ok)
                    /\ LegacyFailure("Failed to start service after upgrade")
                    /\ UNCHANGED fail_msg
    /\ UNCHANGED <<upgrade_history, history_file, call, installed, backup_dirs,
                   temp_binary, prior_history, calls, subject, at_entry, schedVars, saveVars, procVars, callVars>>

\* `expected in actual` for the version outputs of the model
Contains(actual, expected) ==
    actual = expected \/ actual = expected \o "-stable"

\* What check_all reports for the component when its unit is in `state`
Probe(state, rest_healthy) ==
    [service_running |-> state = "active",
     healthy |-> state = "active" /\ rest_healthy]

\* Mutant of PostUpgradeVerification: the verdict is that of the first probe.
PostUpgradeVerification_FirstProbe(actual, expected, p1, p2) ==
    Contains(actual, expected) /\ p1.service_running

\* _post_upgrade_verification (runner.py:507-548): the version must match;
\* the component is probed, and probed again when the first probe is unhealthy;
\* the verdict is service_running of the last probe taken
PostUpgradeVerification(actual, expected, p1, p2) ==
    IF ~Contains(actual, expected) THEN FALSE
    ELSE IF ~p1.healthy THEN p2.service_running
    ELSE p1.service_running

\* the check_all calls _post_upgrade_verification makes
VerificationProbes(actual, expected, p1) ==
    IF ~Contains(actual, expected) THEN 0
    ELSE IF ~p1.healthy THEN 2
    ELSE 1

\* Mutant of AfterPostVerify: the verdict of the verification is not looked at.
AfterPostVerify_IgnoresVerdict(ok) == "success"

\* Where the legacy sequence goes after _post_upgrade_verification (206-216)
AfterPostVerify(ok) == IF ok THEN "success" ELSE "rb_stop"

\* The unit may die between the start and a probe (crash1, crash2); check_all
\* may raise, and that exception reaches the except branch of the legacy
\* sequence without passing through _rollback.
PostVerify(rest_healthy, crash1, crash2, probe_raises) ==
    /\ pc = "post_verify"
    /\ IF probe_raises
       THEN /\ trace' = Log("post_verify_raised", FALSE)
            /\ LegacyFailure("health probe error")
            /\ UNCHANGED <<service, fail_msg>>
       ELSE LET c == call.component
                s1 == IF crash1 THEN "failed" ELSE service[c]
                p1 == Probe(s1, rest_healthy)
                s2 == IF ~p1.healthy /\ crash2 THEN "failed" ELSE s1
                p2 == Probe(s2, rest_healthy)
                ok == PostUpgradeVerification(CurrentVersion(c), call.version, p1, p2)
                next == AfterPostVerify(ok)
            IN /\ service' = [service EXCEPT ![c] = s2]
               /\ CASE next = "success" ->
                         /\ trace' = Log("post_verify", ok)
                         /\ upgrade_record' = SuccessRecord(upgrade_record, clock)
                         /\ clock' = clock + 1
                         /\ result' = [success |-> TRUE,
                                       message |-> SuccessMessage(c, call.version)]
                         /\ pc' = "finally"
                         /\ UNCHANGED fail_msg
                    [] next = "rb_stop" ->
                         \* self._rollback(component, backup_path), then the raise
                         /\ trace' = Log("post_verify", ok) \o
                                        <<[step |-> "rollback_begin", ok |-> TRUE]>>
                         /\ fail_msg' = "Post-upgrade verification failed"
                         /\ pc' = next
                         /\ UNCHANGED <<upgrade_record, clock, result>>
                    [] OTHER ->
                         /\ trace' = Log("post_verify", ok)
                         /\ LegacyFailure("Post-upgrade verification failed")
                         /\ UNCHANGED fail_msg
    /\ UNCHANGED <<upgrade_history, history_file, call, installed, backup_dirs,
                   temp_binary, prior_history, calls, subject, at_entry, schedVars, saveVars, procVars, callVars>>

\* ---- _rollback (runner.py:550-579)
\* self._stop_service(component): the result is not looked at
RollbackStop(rc_ok) ==
    /\ pc = "rb_stop"
    /\ trace' = Log("rb_stop", StopResult(service[call.component], rc_ok))
    /\ service' = [service EXCEPT ![call.component] = StateAfterStop(@, rc_ok)]
    /\ pc' = "rb_restore"
    /\ UNCHANGED <<upgrade_history, history_file, call, upgrade_record, result,
                   fail_msg, installed, backup_dirs, temp_binary, clock,
                   prior_history, calls, subject, at_entry, schedVars, saveVars, procVars, callVars>>

\* The binary kept in the backup directory of this attempt
BackupBinary ==
    LET path == upgrade_record.backup_path[1]
    IN (CHOOSE d \in backup_dirs :
            d.component = path.component /\ d.stamp = path.stamp).binary

\* Mutant of RestoreBinary: the copy is left out.
RestoreBinary_KeepsNew(current, backup) == current

\* shutil.copy2(backup_binary, target_path)
RestoreBinary(current, backup) == backup

\* Where _rollback goes after the copy (runner.py:566-579): an exception of the
\* copy ends the rollback with False, without a start
AfterRestore(ok) == IF ok THEN "rb_start" ELSE "rolled_back_failed"

RollbackRestore(ok, half_written) ==
    /\ pc = "rb_restore"
    /\ LET c == call.component
           next == AfterRestore(ok)
       IN /\ installed' = [installed EXCEPT ![c] =
                             IF ok THEN RestoreBinary(@, BackupBinary)
                             ELSE IF half_written THEN PartialBinary ELSE @]
          /\ IF next = "rb_start"
             THEN /\ trace' = Log("rb_restore", ok)
                  /\ pc' = "rb_start"
                  /\ UNCHANGED <<result, upgrade_record, clock>>
             ELSE /\ trace' = Log("rb_restore", ok) \o
                                <<[step |-> "rollback", ok |-> FALSE]>>
                  /\ LegacyFailure(fail_msg)
    /\ UNCHANGED <<upgrade_history, history_file, call, fail_msg, service,
                   backup_dirs, temp_binary, prior_history, calls, subject, at_entry, schedVars, saveVars, procVars, callVars>>

\* the rollback's start decides what _rollback returns; the caller then raises
\* the failure that led to the rollback
RollbackStart(rc_ok, comes_up) ==
    /\ pc = "rb_start"
    /\ LET ok == StartResult(service[call.component], rc_ok, comes_up)
       IN /\ trace' = Log("rb_start", ok) \o <<[step |-> "rollback", ok |-> ok]>>
          /\ service' = [service EXCEPT
                           ![call.component] = StateAfterStart(@, rc_ok, comes_up)]
    /\ LegacyFailure(fail_msg)
    /\ UNCHANGED <<upgrade_history, history_file, call, fail_msg, installed,
                   backup_dirs, temp_binary, prior_history, calls, subject, at_entry, schedVars, saveVars, procVars, callVars>>

\* Mutants of FinallyAppend: the record is kept only for failed attempts; the
\* record is put in front of the list.
FinallyAppend_FailuresOnly(history, record) ==
    IF record.success THEN history ELSE Append(history, record)

FinallyAppend_Prepend(history, record) == <<record>> \o history

\* ---- the finally block of perform_upgrade (runner.py:100-103)
FinallyAppend(history, record) == Append(history, record)

Finally(save_ok) ==
    /\ pc = "finally"
    /\ upgrade_history' = FinallyAppend(upgrade_history, upgrade_record)
    /\ history_file' = SaveUpgradeHistory(history_file, upgrade_history', save_ok)
    /\ pc' = "idle"
    \* the call returns: its locals are gone
    /\ call' = NoCall
    /\ upgrade_record' = OldRecord
    /\ result' = NoResult
    /\ trace' = <<>>
    /\ fail_msg' = ""
    /\ temp_binary' = NoFile
    /\ at_entry' = [installed |-> installed, service |-> service,
                    backup_dirs |-> backup_dirs]
    /\ UNCHANGED <<installed, service, backup_dirs, clock, prior_history, calls, subject,
                   schedVars, saveVars, procVars, callVars>>

\* =============================================================== scheduler
\* Times are minutes since midnight UTC of day 0; the host's local time is
\* UTC.  A datetime is a pair (minutes, aware): datetime.now(pytz.UTC) is
\* timezone-aware, datetime.now() and a parsed --time are naive, and Python
\* raises TypeError when it orders an aware datetime against a naive one.
\* An entry keeps the fields the operations read (current_version, notes and
\* approval_required are written once and never read) and an id that stands
\* for the identity of the Python object.
DayMinutes == 24 * 60

SchedVersions == {"1.1.0"}
GovVersions == {"1.2.0"}

\* the clock readings of a run, the values of --time, and the offsets of a
\* governance estimate (blocks_until_upgrade * 5 seconds) from now
NowValues == {60, 200}
TimeInputs == {110}
GovEstimates == {20}

Statuses == {"pending", "approved", "completed", "cancelled"}

\* the ScheduledUpgrade dataclass (scheduler.py:18-28)
ScheduledUpgrade(id, component, target_version, scheduled_time, aware, duration, status) ==
    [id |-> id, component |-> component, target_version |-> target_version,
     scheduled_time |-> scheduled_time, aware |-> aware,
     estimated_duration |-> duration, status |-> status]

\* datetime.isoformat / datetime.fromisoformat: an aware time carries its offset
IsoFormat(time, aware) == [minutes |-> time, offset |-> IF aware THEN "+00:00" ELSE ""]
FromIsoFormat(s) == [time |-> s.minutes, aware |-> s.offset # ""]

\* str(timedelta) is "H:MM:SS"; from_dict splits it at the colons
DurationStr(d) == <<d \div 60, d % 60, 0>>
ParseDuration(s) == IF Len(s) = 3 THEN s[1] * 60 + s[2] ELSE 0

ToDict(u) ==
    [id |-> u.id, component |-> u.component, target_version |-> u.target_version,
     scheduled_time |-> IsoFormat(u.scheduled_time, u.aware),
     estimated_duration |-> DurationStr(u.estimated_duration), status |-> u.status]

FromDict(d) ==
    ScheduledUpgrade(d.id, d.component, d.target_version,
                     FromIsoFormat(d.scheduled_time).time,
                     FromIsoFormat(d.scheduled_time).aware,
                     ParseDuration(d.estimated_duration), d.status)

\* no result is waiting for the caller
Returned == [op |-> "none"]

NoScheduleFile == [exists |-> FALSE, data |-> <<>>]

NoTempFile == [exists |-> FALSE, data |-> <<>>, complete |-> FALSE]

\* load_schedule: a missing file leaves the collection empty
LoadSchedule(file) ==
    IF file.exists THEN [i \in 1..Len(file.data) |-> FromDict(file.data[i])] ELSE <<>>

\* save_schedule: the temporary file replaces the schedule file, or an
\* exception is logged and the file stays as it was
SaveSchedule(file, upgrades, ok) ==
    IF ok THEN [exists |-> TRUE, data |-> [i \in 1..Len(upgrades) |-> ToDict(upgrades[i])]]
    ELSE file

Live(status) == status \in {"pending", "approved"}

\* list.sort(key=lambda x: x.scheduled_time): stable, ascending
RECURSIVE InsertByTime(_, _)
InsertByTime(sorted, u) ==
    IF sorted = <<>> THEN <<u>>
    ELSE IF u.scheduled_time < Head(sorted).scheduled_time THEN <<u>> \o sorted
    ELSE <<Head(sorted)>> \o InsertByTime(Tail(sorted), u)

RECURSIVE SortByTime(_)
SortByTime(upgrades) ==
    IF upgrades = <<>> THEN <<>>
    ELSE InsertByTime(SortByTime(SubSeq(upgrades, 1, Len(upgrades) - 1)),
                      upgrades[Len(upgrades)])

\* the sort compares keys pairwise: a list with both kinds of datetime raises
MixedTimes(upgrades) ==
    \E i, j \in 1..Len(upgrades) : upgrades[i].aware # upgrades[j].aware

\* A sort that raises leaves the list as CPython's listsort had it at the
\* failing comparison.  For a list shorter than 64 the sort finds the first run
\* by comparing neighbours and then inserts the later elements one by one into
\* the sorted prefix: it raises at the first element k whose kind of datetime
\* differs from the first element's, with the list untouched when the elements
\* before k are one run, and with them sorted otherwise.
FirstOtherKind(upgrades) ==
    CHOOSE k \in 2..Len(upgrades) :
        /\ upgrades[k].aware # upgrades[1].aware
        /\ \A j \in 2..(k - 1) : upgrades[j].aware = upgrades[1].aware

IsRun(upgrades) ==
    \/ \A j \in 2..Len(upgrades) :
           ~(upgrades[j].scheduled_time < upgrades[j - 1].scheduled_time)
    \/ \A j \in 2..Len(upgrades) :
           upgrades[j].scheduled_time < upgrades[j - 1].scheduled_time

InterruptedSort(upgrades) ==
    LET k == FirstOtherKind(upgrades)
        before == SubSeq(upgrades, 1, k - 1)
    IN  IF IsRun(before) THEN upgrades
        ELSE SortByTime(before) \o SubSeq(upgrades, k, Len(upgrades))

WindowAfterConflicts_NoShift(upgrades, i, next_window) == next_window

\* get_next_maintenance_window: the loop over the collection, from entry i
RECURSIVE WindowAfterConflicts(_, _, _)
WindowAfterConflicts(upgrades, i, next_window) ==
    IF i > Len(upgrades) THEN next_window
    ELSE LET u == upgrades[i]
             upgrade_end == u.scheduled_time + u.estimated_duration
         IN  IF /\ Live(u.status)
                /\ u.scheduled_time <= next_window
                /\ next_window <= upgrade_end
             THEN WindowAfterConflicts(upgrades, i + 1, upgrade_end + ConflictBuffer)
             ELSE WindowAfterConflicts(upgrades, i + 1, next_window)

FirstWindow(t) ==
    LET today == (t \div DayMinutes) * DayMinutes + WindowHour * 60
    IN  IF (t % DayMinutes) \div 60 >= WindowHour THEN today + DayMinutes ELSE today

\* the aware window is ordered against every pending or approved entry
WindowRaises(upgrades) ==
    \E i \in 1..Len(upgrades) : Live(upgrades[i].status) /\ ~upgrades[i].aware

GetNextMaintenanceWindow(upgrades, t) == WindowAfterConflicts(upgrades, 1, FirstWindow(t))

BaseDuration(component) == IF component = "story" THEN StoryDuration ELSE DefaultDuration

\* the schedule file a scheduler can find when it is constructed: none, or
\* the one an earlier process saved after schedule_upgrade with --time
EarlierSchedule ==
    <<ScheduledUpgrade(1, "story", "1.1.0", 110, FALSE, StoryDuration, "pending")>>

SchedInit ==
    /\ schedule_file \in {NoScheduleFile, SaveSchedule(NoScheduleFile, EarlierSchedule, TRUE)}
    /\ scheduled_upgrades = LoadSchedule(schedule_file)
    /\ wall_clock \in {t \in NowValues : \A s \in NowValues : t <= s}
    /\ added = Len(scheduled_upgrades)
    /\ writable \in BOOLEAN
    /\ ret = Returned
    /\ save_pc = "idle"
    /\ temp_file = NoTempFile
    /\ file_complete = TRUE
    /\ old_file = schedule_file
    /\ save_failed = FALSE
    /\ faults = 0

\* The runner is followed beside a scheduler that found no schedule file, the
\* scheduler beside a runner that is not called: neither reads or writes what
\* the other holds.
\* ------------------------------------------------------------ Version (watcher.py)
\* A version string is the sequence of its characters.
MaxParts == 2
ComponentValues == {0, 9, 10}

DigitChars == <<"0", "1", "2", "3", "4", "5", "6", "7", "8", "9">>

IsDigit(ch) == \E d \in 1..10 : DigitChars[d] = ch

DigitValue(ch) == (CHOOSE d \in 1..10 : DigitChars[d] = ch) - 1

\* str(n) for a component below 100
Str(n) == IF n < 10 THEN <<DigitChars[n + 1]>>
          ELSE <<DigitChars[(n \div 10) + 1], DigitChars[(n % 10) + 1]>>

RECURSIVE Join(_)
\* '.'.join(str(n) for n in parts)
Join(parts) ==
    IF Len(parts) = 1 THEN Str(parts[1])
    ELSE Str(parts[1]) \o <<".">> \o Join(Tail(parts))

PartTuples == UNION {[1..n -> ComponentValues] : n \in 1..MaxParts}

\* the version strings compared: "9.10", "v9.10", ...
VersionText == [parts \in PartTuples |-> Join(parts)]

VersionTexts == {VersionText[t] : t \in PartTuples} \cup {<<"v">> \o VersionText[t] : t \in PartTuples}

RECURSIVE LStripV(_)
\* version.lstrip('v')
LStripV(version) ==
    IF version # <<>> /\ Head(version) = "v" THEN LStripV(Tail(version)) ELSE version

RECURSIVE FindAllDigitRuns(_, _, _)
\* re.findall(r'\d+', version): the maximal runs of digits from position i on,
\* `run` being the run in progress
FindAllDigitRuns(version, i, run) ==
    LET closed == IF run = <<>> THEN <<>> ELSE <<run>>
    IN  IF i > Len(version) THEN closed
        ELSE IF IsDigit(version[i]) THEN FindAllDigitRuns(version, i + 1, Append(run, version[i]))
        ELSE closed \o FindAllDigitRuns(version, i + 1, <<>>)

\* int(p) read as the value of its first digit: "10" below "9", as text compares
ToInt_LeadingDigit(p) == DigitValue(p[1])

RECURSIVE ToInt(_)
\* int(p)
ToInt(p) ==
    IF p = <<>> THEN 0
    ELSE ToInt(SubSeq(p, 1, Len(p) - 1)) * 10 + DigitValue(p[Len(p)])

\* Version._parse_version
ParseVersion(version) ==
    LET parts == FindAllDigitRuns(LStripV(version), 1, <<>>)
    IN  [k \in 1..Len(parts) |-> ToInt(parts[k])]

Min(x, y) == IF x <= y THEN x ELSE y

\* a > b on tuples of int: the first differing position decides; when one is a
\* prefix of the other, the longer is the greater
TupleGt(a, b) ==
    LET differ == {k \in 1..Min(Len(a), Len(b)) : a[k] # b[k]}
    IN  IF differ = {} THEN Len(a) > Len(b)
        ELSE LET k == CHOOSE x \in differ : \A y \in differ : x <= y
             IN  a[k] > b[k]

\* Version.__gt__
VersionGt(self, other) == TupleGt(ParseVersion(self.version), ParseVersion(other.version))

\* Version(tag, version, published_at): the fields the comparison reads
Version(version) == [tag |-> <<"v">> \o LStripV(version), version |-> version]

\* ------------------------------------------------------- initial states
\* the runner and the scheduler as constructed, no operation started
AtRest ==
    /\ RunnerInit
    /\ SchedInit
    /\ subject = "story"
    /\ upgrade_history = <<>>
    /\ schedule_file = NoScheduleFile
    /\ writable

VersionInit ==
    /\ AtRest
    /\ input \in [self : {Version(v) : v \in VersionTexts}, other : {Version(v) : v \in VersionTexts}]
    /\ output = <<>>

\* v1 > v2
CompareVersions ==
    /\ output = <<>>
    /\ output' = <<VersionGt(input.self, input.other)>>
    /\ UNCHANGED <<input, runnerVars, schedVars, saveVars, procVars>>

VersionNext == CompareVersions

VersionSpec == VersionInit /\ [][VersionNext]_vars

\* ------------------------------------------------------ HealthChecker (health.py)
MinPeers == 5
BlockTimeVariance == 10

\* Python's None, and a value that is present
None == <<>>
Some(x) == <<x>>

\* `not x` for x in None, False, True
Not(x) == x = None \/ x = Some(FALSE)

HexDigits == <<"0", "1", "2", "3", "4", "5", "6", "7", "8", "9", "a", "b", "c", "d", "e", "f">>

HexValue(ch) == (CHOOSE d \in 1..16 : HexDigits[d] = ch) - 1

RECURSIVE HexNumber(_)
HexNumber(digits) ==
    IF digits = <<>> THEN 0
    ELSE HexNumber(SubSeq(digits, 1, Len(digits) - 1)) * 16 + HexValue(digits[Len(digits)])

\* int(text, 16) for a text such as 0x1a
IntBase16(text) ==
    IF Len(text) >= 2 /\ text[1] = "0" /\ text[2] = "x"
    THEN HexNumber(SubSeq(text, 3, Len(text)))
    ELSE HexNumber(text)

\* what the collaborators can answer
ServiceAnswers == {"active", "inactive", "raises"}
PeerLists == {[k \in 1..n |-> "peer"] : n \in {0, MinPeers - 1, MinPeers}}
JournalLines == {<<>>, <<"app hash">>, <<"block", "app hash", "app hash">>}
BlockTimes == {20, 21}
PreviousBlockTimes == {None, Some(10)}
MemoryAnswers == {None, Some(2048)}
HexTexts == {<<"0", "x", "0">>, <<"0", "x", "4">>, <<"0", "x", "5">>, <<"0", "x", "1", "0">>}

\* GET /status: the request raises, the body has no result, the result lacks
\* sync_info, or the result carries the fields read
StatusAnswers ==
    [kind : {"raises", "no_result", "malformed"}, catching_up : {FALSE}, latest_block_time : {20}]
    \cup [kind : {"result"}, catching_up : BOOLEAN, latest_block_time : BlockTimes]

\* GET /net_info
NetInfoAnswers ==
    [kind : {"raises", "no_result"}, peers : {<<>>}] \cup [kind : {"result"}, peers : PeerLists]

\* journalctl -u <service> -n 100
JournalAnswers == [kind : {"raises"}, stdout : {<<>>}] \cup [kind : {"result"}, stdout : JournalLines]

\* eth_syncing: result false, or a progress object with currentBlock
SyncingAnswers ==
    [kind : {"raises", "no_result", "false"}, currentBlock : {<<"0", "x", "0">>}]
    \cup [kind : {"progress"}, currentBlock : {<<"0", "x", "1", "0">>}]

\* eth_blockNumber and net_peerCount
HexAnswers(texts) == [kind : {"raises", "no_result"}, result : {<<"0">>}] \cup [kind : {"result"}, result : texts]

StoryProbes ==
    [service : {"story"}, docker_mode : BOOLEAN, is_active : ServiceAnswers,
     status : StatusAnswers, net_info : NetInfoAnswers, journal : JournalAnswers,
     memory : MemoryAnswers, last_block_time : PreviousBlockTimes]

GethProbes ==
    [service : {"story_geth"}, docker_mode : BOOLEAN, is_active : ServiceAnswers,
     eth_syncing : SyncingAnswers, eth_blockNumber : HexAnswers({<<"0", "x", "1", "0">>}),
     net_peerCount : HexAnswers(HexTexts), memory : MemoryAnswers]

\* checks['service_running']
ServiceRunning(env) == env.docker_mode \/ env.is_active = "active"

\* stdout.count('app hash')
CountAppHash(stdout) == Cardinality({k \in 1..Len(stdout) : stdout[k] = "app hash"})

\* the checks of _check_story
StoryChecks(env) ==
    LET service_running == ServiceRunning(env)
        rpc_responsive == service_running /\ env.status.kind \in {"malformed", "result"}
        extracted == service_running /\ env.status.kind = "result"
        net_asked == service_running /\ env.status.kind \in {"no_result", "result"}
    IN  [service_running |-> service_running,
         rpc_responsive |-> rpc_responsive,
         catching_up |-> IF extracted THEN Some(env.status.catching_up) ELSE None,
         latest_block_time |-> IF extracted THEN Some(env.status.latest_block_time) ELSE None,
         peer_count |-> IF net_asked /\ env.net_info.kind = "result"
                        THEN Len(env.net_info.peers) ELSE 0,
         memory_usage_mb |-> IF env.memory = None THEN 0 ELSE env.memory[1],
         app_hash_errors |-> IF env.journal.kind = "result"
                             THEN CountAppHash(env.journal.stdout) ELSE 0]

BlockTimeHealthy(checks, last_block_time) ==
    ~ /\ checks.latest_block_time # None
      /\ last_block_time # None
      /\ checks.latest_block_time[1] - last_block_time[1] > BlockTimeVariance

\* healthy of _check_story with the sync state left out
StoryHealthy_IgnoresCatchingUp(checks, block_time_healthy) ==
    /\ checks.service_running
    /\ checks.rpc_responsive
    /\ checks.peer_count >= MinPeers
    /\ checks.app_hash_errors = 0
    /\ block_time_healthy

StoryHealthy(checks, block_time_healthy) ==
    /\ checks.service_running
    /\ checks.rpc_responsive
    /\ Not(checks.catching_up)
    /\ checks.peer_count >= MinPeers
    /\ checks.app_hash_errors = 0
    /\ block_time_healthy

StoryMessage(checks, block_time_healthy) ==
    IF ~checks.service_running THEN "service is not running"
    ELSE IF ~checks.rpc_responsive THEN "RPC is not responsive"
    ELSE IF ~Not(checks.catching_up) THEN "is catching up"
    ELSE IF checks.peer_count < MinPeers THEN "has low peer count"
    ELSE IF checks.app_hash_errors > 0 THEN "has app hash errors"
    ELSE IF ~block_time_healthy THEN "has slow block production"
    ELSE ""

\* HealthChecker._check_story
HealthOfStory(env) ==
    LET checks == StoryChecks(env)
        block_time_healthy == BlockTimeHealthy(checks, env.last_block_time)
    IN  [healthy |-> StoryHealthy(checks, block_time_healthy),
         service_name |-> "story",
         checks |-> checks,
         message |-> StoryMessage(checks, block_time_healthy)]

\* the checks of _check_story_geth
GethChecks(env) ==
    LET service_running == ServiceRunning(env)
        answered == service_running /\ env.eth_syncing.kind \in {"false", "progress"}
        block_asked == service_running /\ env.eth_syncing.kind = "false"
        peers_asked == /\ service_running
                       /\ env.eth_syncing.kind # "raises"
                       /\ ~(block_asked /\ env.eth_blockNumber.kind = "raises")
    IN  [service_running |-> service_running,
         rpc_responsive |-> answered,
         syncing |-> IF answered THEN Some(env.eth_syncing.kind = "progress") ELSE None,
         peer_count |-> IF peers_asked /\ env.net_peerCount.kind = "result"
                        THEN IntBase16(env.net_peerCount.result) ELSE 0,
         block_number |-> IF ~answered THEN 0
                          ELSE IF env.eth_syncing.kind = "progress"
                               THEN IntBase16(env.eth_syncing.currentBlock)
                          ELSE IF env.eth_blockNumber.kind = "result"
                               THEN IntBase16(env.eth_blockNumber.result)
                          ELSE 0,
         memory_usage_mb |-> IF env.memory = None THEN 0 ELSE env.memory[1]]

GethHealthy(checks) ==
    /\ checks.service_running
    /\ checks.rpc_responsive
    /\ checks.peer_count >= MinPeers
    /\ Not(checks.syncing)

GethMessage(checks) ==
    IF ~checks.service_running THEN "service is not running"
    ELSE IF ~checks.rpc_responsive THEN "RPC is not responsive"
    ELSE IF ~Not(checks.syncing) THEN "is still syncing"
    ELSE IF checks.peer_count < MinPeers THEN "has low peer count"
    ELSE ""

\* HealthChecker._check_story_geth
HealthOfStoryGeth(env) ==
    LET checks == GethChecks(env)
    IN  [healthy |-> GethHealthy(checks),
         service_name |-> "story_geth",
         checks |-> checks,
         message |-> GethMessage(checks)]

\* ------------------------------------------------ VersionWatcher (watcher.py)
\* Time is counted in half seconds.
MaxLookups == 2
RateLimitDelay == 2
CacheLifetime == 600

Repos == {"piplabs/story", "piplabs/story-geth"}
ReleaseTags == {<<"v", "1">>, <<"v", "2">>}
Elapses == {1, RateLimitDelay, CacheLifetime - 1, CacheLifetime}
Latencies == {0, 1}

\* GET /repos/<repo>/releases/latest: the request raises, answers 404 or 500,
\* answers 200 with a body that lacks tag_name, or answers 200 with a release
GithubAnswers ==
    [kind : {"raises", "404", "500", "malformed"}, tag_name : {<<>>}]
    \cup [kind : {"200"}, tag_name : ReleaseTags]

\* Version(tag=data['tag_name'], version=data['tag_name'].lstrip('v'), ...)
ReleaseVersion(tag_name) == [tag |-> tag_name, version |-> LStripV(tag_name)]

\* VersionWatcher.__init__: both dicts empty
NewWatcher ==
    [last_github_check |-> [r \in Repos |-> None],
     cached_versions |-> [r \in Repos |-> None]]

\* time.sleep(RATE_LIMIT_DELAY - elapsed) when the last recorded request to the
\* repository is less than the delay ago
RateLimitSleep(last_check, now) ==
    IF last_check # None /\ now - last_check[1] < RateLimitDelay
    THEN RateLimitDelay - (now - last_check[1])
    ELSE 0

\* a cache entry that never expires
CacheFresh_Forever(cached, now) == cached # None

\* datetime.now() - cached_time < timedelta(minutes=5)
CacheFresh(cached, now) == cached # None /\ now - cached[1].at < CacheLifetime

\* _get_latest_release(repo) at time `now`, the request (if one is made)
\* taking `latency` and being answered by `answer`: the new fields of the
\* watcher, the time at return, the time of the outbound request (None when
\* there is none) and the returned value
LatestRelease(self, repo, now, answer, latency) ==
    LET woke == now + RateLimitSleep(self.last_github_check[repo], now)
        cached == self.cached_versions[repo]
        done == woke + latency
        checked == [self EXCEPT !.last_github_check[repo] = Some(done)]
    IN  IF CacheFresh(cached, woke)
        THEN [self |-> self, now |-> woke, request |-> None, value |-> Some(cached[1].version)]
        ELSE IF answer.kind = "raises"
        THEN [self |-> self, now |-> done, request |-> Some(woke), value |-> None]
        ELSE IF answer.kind = "200"
        THEN [self |-> [checked EXCEPT !.cached_versions[repo] =
                            Some([version |-> ReleaseVersion(answer.tag_name), at |-> done])],
              now |-> done, request |-> Some(woke),
              value |-> Some(ReleaseVersion(answer.tag_name))]
        ELSE [self |-> checked, now |-> done, request |-> Some(woke), value |-> None]

WatcherInit ==
    /\ AtRest
    /\ input = [self |-> NewWatcher, now |-> 0, lookups |-> 0, requests |-> <<>>,
                waited |-> FALSE]
    /\ output = <<>>

\* watcher._get_latest_release(repo); `requests` keeps repository and time of
\* every session.get
GetLatestRelease(repo, answer, latency) ==
    /\ input.lookups < MaxLookups
    /\ LET got == LatestRelease(input.self, repo, input.now, answer, latency)
       IN  /\ input' = [self |-> got.self,
                        now |-> got.now,
                        lookups |-> input.lookups + 1,
                        waited |-> FALSE,
                        requests |-> IF got.request = None THEN input.requests
                                     ELSE Append(input.requests,
                                                 [repo |-> repo, at |-> got.request[1]])]
           /\ output' = <<[repo |-> repo, value |-> got.value, at |-> got.now]>>
    /\ UNCHANGED <<runnerVars, schedVars, saveVars, procVars>>

\* time passes between two lookups
Elapse(d) ==
    /\ ~input.waited
    /\ input.lookups < MaxLookups
    /\ input' = [input EXCEPT !.now = @ + d, !.waited = TRUE]
    /\ UNCHANGED <<output, runnerVars, schedVars, saveVars, procVars>>

WatcherNext ==
    \/ \E r \in Repos, a \in GithubAnswers, l \in Latencies : GetLatestRelease(r, a, l)
    \/ \E d \in Elapses : Elapse(d)

WatcherSpec == WatcherInit /\ [][WatcherNext]_vars

HealthInit ==
    /\ AtRest
    /\ input \in StoryProbes \cup GethProbes
    /\ output = <<>>

CheckStory ==
    /\ output = <<>>
    /\ input.service = "story"
    /\ output' = <<HealthOfStory(input)>>
    /\ UNCHANGED <<input, runnerVars, schedVars, saveVars, procVars>>

CheckStoryGeth ==
    /\ output = <<>>
    /\ input.service = "story_geth"
    /\ output' = <<HealthOfStoryGeth(input)>>
    /\ UNCHANGED <<input, runnerVars, schedVars, saveVars, procVars>>

HealthNext ==
    \/ CheckStory
    \/ CheckStoryGeth

HealthSpec == HealthInit /\ [][HealthNext]_vars

\* ------------------------------------------------- block production rate
\* successive probes of the consensus client by one HealthChecker
MaxProbes == 2

\* the interpreters setup.py admits
Pythons == {"3.10", "3.11"}

\* sync_info.latest_block_time as the node can send it: an empty text, a
\* timestamp with whole seconds, one with a nine digit fraction, or a text that
\* is no timestamp; seconds is the instant the text denotes
EmptyText == [kind |-> "empty", seconds |-> 0]
BlockTimeTexts ==
    {EmptyText, [kind |-> "garbage", seconds |-> 0]}
    \cup [kind : {"seconds", "nanos"}, seconds : {0, BlockTimeVariance, BlockTimeVariance + 1}]

\* datetime.fromisoformat(text.replace('Z', '+00:00')): None when it raises
\* ValueError; before 3.11 a fraction must have three or six digits
ParseBlockTime(text, python) ==
    IF text.kind = "seconds" \/ (text.kind = "nanos" /\ python = "3.11")
    THEN Some(text.seconds)
    ELSE None

BlockStatusAnswers ==
    [kind : {"raises"}, catching_up : {FALSE}, latest_block_time : {EmptyText}]
    \cup [kind : {"result"}, catching_up : BOOLEAN, latest_block_time : BlockTimeTexts]

\* a probe whose other collaborators answer as a healthy node does
BlockProbe(status) ==
    [service |-> "story", docker_mode |-> FALSE, is_active |-> "active",
     status |-> status,
     net_info |-> [kind |-> "result", peers |-> [k \in 1..MinPeers |-> "peer"]],
     journal |-> [kind |-> "result", stdout |-> <<>>],
     memory |-> None, last_block_time |-> None]

\* HealthChecker.__init__
NewHealthChecker == [last_block_times |-> [s \in {"story"} |-> None]]

\* HealthChecker._check_story with the block time sent as text: the checker
\* afterwards and the HealthStatus returned, None when the call raised
CheckStoryBlockTime(self, env, python) ==
    LET checks == StoryChecks(env)
        truthy == /\ checks.latest_block_time # None
                  /\ checks.latest_block_time[1].kind # "empty"
        last_time == self.last_block_times[env.service]
        current_time == IF truthy THEN ParseBlockTime(checks.latest_block_time[1], python)
                        ELSE None
        raised == truthy /\ current_time = None
        block_time_healthy == BlockTimeHealthy([latest_block_time |-> current_time], last_time)
    IN  IF raised
        THEN [self |-> self, value |-> None]
        ELSE [self |-> IF truthy
                       THEN [self EXCEPT !.last_block_times[env.service] = current_time]
                       ELSE self,
              value |-> Some([healthy |-> StoryHealthy(checks, block_time_healthy),
                              service_name |-> "story",
                              checks |-> checks,
                              message |-> StoryMessage(checks, block_time_healthy)])]

BlockInit ==
    /\ AtRest
    /\ \E python \in Pythons :
          input = [self |-> NewHealthChecker, python |-> python, probes |-> 0]
    /\ output = <<>>

\* one call of _check_story; the output keeps the checker as it was before
ProbeStory(status) ==
    /\ input.probes < MaxProbes
    /\ LET got == CheckStoryBlockTime(input.self, BlockProbe(status), input.python)
       IN  /\ input' = [input EXCEPT !.self = got.self, !.probes = @ + 1]
           /\ output' = <<[before |-> input.self, status |-> status, value |-> got.value]>>
    /\ UNCHANGED <<runnerVars, schedVars, saveVars, procVars>>

BlockNext == \E status \in BlockStatusAnswers : ProbeStory(status)

BlockSpec == BlockInit /\ [][BlockNext]_vars

Init ==
    /\ RunnerInit
    /\ SchedInit
    /\ schedule_file = NoScheduleFile
    /\ writable
    /\ input = <<>> /\ output = <<>>

SchedulerInit ==
    /\ RunnerInit
    /\ SchedInit
    /\ subject = "story"
    /\ upgrade_history = <<>>
    /\ input = <<>> /\ output = <<>>

Next ==
    \/ \E c \in Components, v \in TargetVersions, d \in BOOLEAN : PerformUpgrade(c, v, d)
    \/ \E h \in HealthInputs, r \in BOOLEAN, s \in BOOLEAN : PreCheck(h, r, s)
    \/ \E o \in NativeOutcomes, t \in BOOLEAN : NativeUpgrade(o, t)
    \/ \E ok \in BOOLEAN : CreateBackup(ok)
    \/ \E f \in BOOLEAN, k \in BOOLEAN, b \in DownloadedBinaries(call.version) :
           DownloadBinary(f, k, b)
    \/ \E r \in BOOLEAN : VerifyBinary(r)
    \/ \E rc \in BOOLEAN : StopService(rc)
    \/ \E ok \in BOOLEAN, h \in BOOLEAN : ReplaceBinary(ok, h)
    \/ \E rc \in BOOLEAN, up \in BOOLEAN : StartService(rc, up)
    \/ \E h \in BOOLEAN, c1 \in BOOLEAN, c2 \in BOOLEAN, r \in BOOLEAN :
           PostVerify(h, c1, c2, r)
    \/ \E rc \in BOOLEAN : RollbackStop(rc)
    \/ \E ok \in BOOLEAN, h \in BOOLEAN : RollbackRestore(ok, h)
    \/ \E rc \in BOOLEAN, up \in BOOLEAN : RollbackStart(rc, up)
    \/ \E ok \in BOOLEAN : Finally(ok)

Spec == Init /\ [][Next]_vars

\* ------------------------------------------------ two `upgrade` processes
\* `story-sentinel upgrade` constructs an UpgradeRunner and calls
\* perform_upgrade (__main__.py:138-162); nothing in that path takes a lock, a
\* pid file or any other token, so a second process started for the same
\* component runs the same sequence on the same unit and the same binary.  The
\* second process is followed at the steps that write the unit and the binary,
\* with every step succeeding.
PeerPerformUpgrade(version) ==
    /\ peer.pc = "idle"
    /\ peer' = [pc |-> "stop", version |-> version]
    /\ UNCHANGED <<runnerVars, schedVars, saveVars, shutdown, callVars>>

\* what the steps of the second process leave alone
PeerFrame ==
    UNCHANGED <<upgrade_history, history_file, pc, call, upgrade_record, result, trace,
                fail_msg, backup_dirs, temp_binary, clock, subject, at_entry,
                prior_history, calls, schedVars, saveVars, shutdown, callVars>>

PeerStopService ==
    /\ peer.pc = "stop"
    /\ service' = [service EXCEPT ![subject] = StateAfterStop(@, TRUE)]
    /\ peer' = [peer EXCEPT !.pc = "replace"]
    /\ UNCHANGED installed
    /\ PeerFrame

PeerReplaceBinary ==
    /\ peer.pc = "replace"
    /\ installed' = [installed EXCEPT ![subject] = peer.version]
    /\ peer' = [peer EXCEPT !.pc = "start"]
    /\ UNCHANGED service
    /\ PeerFrame

PeerStartService ==
    /\ peer.pc = "start"
    /\ service' = [service EXCEPT ![subject] = StateAfterStart(@, TRUE, TRUE)]
    /\ peer' = [peer EXCEPT !.pc = "done"]
    /\ UNCHANGED installed
    /\ PeerFrame

PairNext ==
    \/ Next
    \/ \E v \in TargetVersions : PeerPerformUpgrade(v)
    \/ PeerStopService
    \/ PeerReplaceBinary
    \/ PeerStartService

PairSpec == Init /\ [][PairNext]_vars

\* ----------------------------------------- two runners, one history file
\* The monitoring process and an `upgrade` command each construct an
\* UpgradeRunner on the same config.log_dir (__main__.py:138, 233).  The second
\* runner is `input`: None until constructed, then its own upgrade_history and
\* the calls it has made.  Its call is a dry run whose pre-checks pass, taken
\* as one step: such a call touches nothing but the history.
OtherRunner(file) == [upgrade_history |-> LoadUpgradeHistory(file), calls |-> 0]

OtherConstruct ==
    /\ input = None
    /\ input' = Some(OtherRunner(history_file))
    /\ UNCHANGED <<runnerVars, schedVars, saveVars, procVars, output>>

OtherDryRun(version, save_ok) ==
    /\ input # None
    /\ input[1].calls = 0
    /\ LET record == DryRunRecord(NewUpgradeRecord(subject, version, TRUE,
                                                   CurrentVersion(subject), clock))
           history == FinallyAppend(input[1].upgrade_history, record)
       IN  /\ input' = Some([upgrade_history |-> history, calls |-> 1])
           /\ history_file' = SaveUpgradeHistory(history_file, history, save_ok)
           /\ output' = <<record>>
    /\ clock' = clock + 1
    /\ UNCHANGED <<upgrade_history, pc, call, upgrade_record, result, trace, fail_msg,
                   installed, service, backup_dirs, temp_binary, subject, at_entry,
                   prior_history, calls, schedVars, saveVars, procVars>>

SharedHistoryNext ==
    \/ Next
    \/ OtherConstruct
    \/ \E v \in TargetVersions, ok \in BOOLEAN : OtherDryRun(v, ok)

SharedHistorySpec == Init /\ [][SharedHistoryNext]_vars

\* ------------------------------------------------------- a shutdown signal
\* The `upgrade` command installs no handler: SIGTERM ends the process where
\* it stands, SIGINT raises KeyboardInterrupt in the main thread.  (The handler
\* of `monitor`, __main__.py:284-289, calls sys.exit(0), which raises SystemExit
\* the same way.)  Neither is an Exception, so the except branches of
\* runner.py:92 and :218 let it pass; the finally block of runner.py:100-103
\* runs and the process ends.
Shutdown(signal, save_ok) ==
    /\ pc \notin {"idle", "exited"}
    /\ shutdown = <<>>
    /\ shutdown' = <<pc>>
    /\ pc' = "exited"
    /\ IF signal = "SIGINT"
       THEN /\ upgrade_history' = FinallyAppend(upgrade_history, upgrade_record)
            /\ history_file' = SaveUpgradeHistory(history_file, upgrade_history', save_ok)
       ELSE UNCHANGED <<upgrade_history, history_file>>
    /\ UNCHANGED <<call, upgrade_record, result, trace, fail_msg, installed, service,
                   backup_dirs, temp_binary, clock, subject, at_entry, prior_history,
                   calls, schedVars, saveVars, peer, callVars>>

SignalNext ==
    \/ Next
    \/ \E sig \in {"SIGINT", "SIGTERM"}, s \in BOOLEAN : Shutdown(sig, s)

SignalSpec == Init /\ [][SignalNext]_vars

\* --------------------------------------------- the message the caller is given
\* How a failed attempt ended, read from the steps it ran: a rollback that
\* returned True, a rollback that returned False, no step that touches the
\* unit or the binary, or such a step without a rollback.
AttemptOutcome ==
    IF \E i \in DOMAIN trace : trace[i] = [step |-> "rollback", ok |-> TRUE]
    THEN "rolled back"
    ELSE IF \E i \in DOMAIN trace : trace[i] = [step |-> "rollback", ok |-> FALSE]
    THEN "rollback failed"
    ELSE IF \A i \in DOMAIN trace : trace[i].step \notin {"native", "stop", "replace", "start"}
    THEN "aborted before any change"
    ELSE "changed, no rollback"

\* `success, message = runner.perform_upgrade(...)` followed by click.echo of the
\* message (__main__.py:162-168): what the operator read after an earlier
\* failed attempt is kept for comparison with a later one
EchoFailure ==
    /\ pc = "finally"
    /\ ~result.success
    /\ output = <<>>
    /\ output' = <<[outcome |-> AttemptOutcome, message |-> result.message]>>
    /\ UNCHANGED <<input, runnerVars, schedVars, saveVars, procVars>>

EchoNext ==
    \/ Next
    \/ EchoFailure

EchoSpec == Init /\ [][EchoNext]_vars


\* the arguments the callers pass: hours of the due query (__main__.py:258,
\* api.py:190) and days of the cleanup (scheduler.py:312 and an immediate one)
HoursInputs == {1, 24 * 7}
DaysInputs == {0, 30}
NoTime == <<>>

\* ---- schedule_upgrade (scheduler.py:93-130)
ScheduleUpgrade(component, version, scheduled_time, auto_approve) ==
    /\ ret = Returned
    /\ added < MaxEntries
    /\ IF scheduled_time = NoTime /\ WindowRaises(scheduled_upgrades)
       THEN /\ ret' = [op |-> "schedule_upgrade", raised |-> TRUE, id |-> 0]
            /\ UNCHANGED <<scheduled_upgrades, schedule_file, added>>
       ELSE LET time == IF scheduled_time = NoTime
                        THEN GetNextMaintenanceWindow(scheduled_upgrades, wall_clock)
                        ELSE scheduled_time[1]
                upgrade == ScheduledUpgrade(added + 1, component, version, time,
                                            scheduled_time = NoTime, BaseDuration(component),
                                            IF auto_approve THEN "approved" ELSE "pending")
                appended == Append(scheduled_upgrades, upgrade)
            IN  /\ added' = added + 1
                /\ IF MixedTimes(appended)
                   THEN /\ scheduled_upgrades' = InterruptedSort(appended)
                        /\ UNCHANGED schedule_file
                        /\ ret' = [op |-> "schedule_upgrade", raised |-> TRUE, id |-> upgrade.id]
                   ELSE /\ scheduled_upgrades' = SortByTime(appended)
                        /\ schedule_file' = SaveSchedule(schedule_file, scheduled_upgrades', writable)
                        /\ ret' = [op |-> "schedule_upgrade", raised |-> FALSE, id |-> upgrade.id]
    /\ UNCHANGED <<wall_clock, writable, runnerVars, saveVars, procVars, callVars>>

\* ---- schedule_governance_upgrade (scheduler.py:132-163)
ScheduleGovernanceUpgrade(has_height_and_version, version, height_known, estimate) ==
    /\ ret = Returned
    /\ IF has_height_and_version /\ height_known
       THEN LET upgrade == ScheduledUpgrade(added + 1, "story", version,
                                            wall_clock + estimate - GovernanceLead, FALSE,
                                            GovernanceDuration, "approved")
            IN  /\ added < MaxEntries
                /\ added' = added + 1
                /\ scheduled_upgrades' = Append(scheduled_upgrades, upgrade)
                /\ schedule_file' = SaveSchedule(schedule_file, scheduled_upgrades', writable)
                /\ ret' = [op |-> "schedule_governance_upgrade", value |-> <<upgrade.id>>]
       ELSE /\ ret' = [op |-> "schedule_governance_upgrade", value |-> <<>>]
            /\ UNCHANGED <<scheduled_upgrades, schedule_file, added>>
    /\ UNCHANGED <<wall_clock, writable, runnerVars, saveVars, procVars, callVars>>

\* ---- approve_upgrade and cancel_upgrade (scheduler.py:197-217); the index
\* counts from 0
IndexInRange(upgrade_index, length) == 0 <= upgrade_index /\ upgrade_index < length

ApprovableStatus_AnyOpen(status) == status \in {"pending", "cancelled"}

ApprovableStatus(status) == status = "pending"

CancellableStatus(status) == status \in {"pending", "approved"}

\* Mutant of SetStatus: the entry keeps its status.
SetStatus_Nothing(upgrades, k, status) == upgrades

SetStatus(upgrades, k, status) == [upgrades EXCEPT ![k].status = status]

ApproveUpgrade(upgrade_index) ==
    LET ok == /\ IndexInRange(upgrade_index, Len(scheduled_upgrades))
              /\ ApprovableStatus(scheduled_upgrades[upgrade_index + 1].status)
    IN  /\ ret = Returned
        /\ ret' = [op |-> "approve_upgrade", index |-> upgrade_index, value |-> ok]
        /\ IF ok
           THEN /\ scheduled_upgrades' = SetStatus(scheduled_upgrades, upgrade_index + 1, "approved")
                /\ schedule_file' = SaveSchedule(schedule_file, scheduled_upgrades', writable)
           ELSE UNCHANGED <<scheduled_upgrades, schedule_file>>
        /\ UNCHANGED <<wall_clock, added, writable, runnerVars, saveVars, procVars, callVars>>

CancelUpgrade(upgrade_index) ==
    LET ok == /\ IndexInRange(upgrade_index, Len(scheduled_upgrades))
              /\ CancellableStatus(scheduled_upgrades[upgrade_index + 1].status)
    IN  /\ ret = Returned
        /\ ret' = [op |-> "cancel_upgrade", index |-> upgrade_index, value |-> ok]
        /\ IF ok
           THEN /\ scheduled_upgrades' = SetStatus(scheduled_upgrades, upgrade_index + 1, "cancelled")
                /\ schedule_file' = SaveSchedule(schedule_file, scheduled_upgrades', writable)
           ELSE UNCHANGED <<scheduled_upgrades, schedule_file>>
        /\ UNCHANGED <<wall_clock, added, writable, runnerVars, saveVars, procVars, callVars>>

\* ---- mark_completed (scheduler.py:219-228)
Matches_AnyStatus(upgrade, component, version) ==
    upgrade.component = component /\ upgrade.target_version = version

Matches(upgrade, component, version) ==
    /\ upgrade.component = component
    /\ upgrade.target_version = version
    /\ upgrade.status = "approved"

RECURSIVE MarkCompletedFrom_NoBreak(_, _, _, _)
MarkCompletedFrom_NoBreak(upgrades, i, component, version) ==
    IF i > Len(upgrades) THEN upgrades
    ELSE IF Matches(upgrades[i], component, version)
         THEN MarkCompletedFrom_NoBreak(SetStatus(upgrades, i, "completed"), i + 1,
                                        component, version)
         ELSE MarkCompletedFrom_NoBreak(upgrades, i + 1, component, version)

\* the for loop from entry i: the first match is completed and the loop breaks
RECURSIVE MarkCompletedFrom(_, _, _, _)
MarkCompletedFrom(upgrades, i, component, version) ==
    IF i > Len(upgrades) THEN upgrades
    ELSE IF Matches(upgrades[i], component, version)
         THEN SetStatus(upgrades, i, "completed")
         ELSE MarkCompletedFrom(upgrades, i + 1, component, version)

MarkCompleted(component, version) ==
    /\ ret = Returned
    /\ scheduled_upgrades' = MarkCompletedFrom(scheduled_upgrades, 1, component, version)
    /\ schedule_file' = IF \E i \in 1..Len(scheduled_upgrades) :
                               Matches(scheduled_upgrades[i], component, version)
                        THEN SaveSchedule(schedule_file, scheduled_upgrades', writable)
                        ELSE schedule_file
    /\ ret' = [op |-> "mark_completed", component |-> component, version |-> version]
    /\ UNCHANGED <<wall_clock, added, writable, runnerVars, saveVars, procVars, callVars>>

\* ---- get_upcoming_upgrades (scheduler.py:189-195): the cutoff is naive, and
\* it is ordered against the time of every pending or approved entry
UpcomingRaises(upgrades) ==
    \E i \in 1..Len(upgrades) : Live(upgrades[i].status) /\ upgrades[i].aware

Due(upgrade, cutoff) == Live(upgrade.status) /\ upgrade.scheduled_time <= cutoff

UpcomingUpgrades(upgrades, cutoff) == SelectSeq(upgrades, LAMBDA u : Due(u, cutoff))

GetUpcomingUpgrades(hours) ==
    /\ ret = Returned
    /\ ret' = IF UpcomingRaises(scheduled_upgrades)
              THEN [op |-> "get_upcoming_upgrades", hours |-> hours, raised |-> TRUE,
                    value |-> <<>>]
              ELSE [op |-> "get_upcoming_upgrades", hours |-> hours, raised |-> FALSE,
                    value |-> UpcomingUpgrades(scheduled_upgrades, wall_clock + hours * 60)]
    /\ UNCHANGED <<scheduled_upgrades, schedule_file, wall_clock, added, writable, runnerVars, saveVars, procVars, callVars>>

\* ---- cleanup_old_upgrades (scheduler.py:312-321): the naive cutoff is ordered
\* against the time of every completed or cancelled entry; when that raises the
\* assignment and the save are not reached
CleanupRaises(upgrades) ==
    \E i \in 1..Len(upgrades) : ~Live(upgrades[i].status) /\ upgrades[i].aware

Kept(upgrade, cutoff) == Live(upgrade.status) \/ upgrade.scheduled_time > cutoff

CleanupOldUpgrades(days) ==
    /\ ret = Returned
    /\ IF CleanupRaises(scheduled_upgrades)
       THEN /\ ret' = [op |-> "cleanup_old_upgrades", days |-> days, raised |-> TRUE]
            /\ UNCHANGED <<scheduled_upgrades, schedule_file>>
       ELSE /\ scheduled_upgrades' = SelectSeq(scheduled_upgrades,
                                               LAMBDA u : Kept(u, wall_clock - days * DayMinutes))
            /\ schedule_file' = SaveSchedule(schedule_file, scheduled_upgrades', writable)
            /\ ret' = [op |-> "cleanup_old_upgrades", days |-> days, raised |-> FALSE]
    /\ UNCHANGED <<wall_clock, added, writable, runnerVars, saveVars, procVars, callVars>>

\* ---- time passes between two operations
Tick ==
    /\ ret = Returned
    /\ \E t \in NowValues : t > wall_clock /\ wall_clock' = t
    /\ UNCHANGED <<scheduled_upgrades, schedule_file, added, writable, ret, runnerVars, saveVars, procVars, callVars>>

\* ---- the caller takes the result; the next operation starts after that
Return ==
    /\ ret # Returned
    /\ ret' = Returned
    /\ UNCHANGED <<scheduled_upgrades, schedule_file, wall_clock, added, writable, runnerVars, saveVars, procVars, callVars>>

SchedNext ==
    \/ \E c \in Components, v \in SchedVersions, t \in {NoTime} \cup {<<x>> : x \in TimeInputs},
          a \in BOOLEAN : ScheduleUpgrade(c, v, t, a)
    \/ \E h \in BOOLEAN, v \in GovVersions, k \in BOOLEAN, e \in GovEstimates :
          ScheduleGovernanceUpgrade(h, v, k, e)
    \/ \E i \in -1..Len(scheduled_upgrades) : ApproveUpgrade(i)
    \/ \E i \in -1..Len(scheduled_upgrades) : CancelUpgrade(i)
    \/ \E c \in Components, v \in SchedVersions \cup GovVersions : MarkCompleted(c, v)
    \/ \E h \in HoursInputs : GetUpcomingUpgrades(h)
    \/ \E d \in DaysInputs : CleanupOldUpgrades(d)
    \/ Tick
    \/ Return

SchedSpec == SchedulerInit /\ [][SchedNext]_vars

\* ------------------------------------- two schedulers, one schedule file
\* `story-sentinel schedule-upgrade --time ...` in a process of its own
\* (__main__.py:188-222): it constructs an UpgradeScheduler, which loads the
\* file, calls schedule_upgrade on it and exits.  The scheduler of the
\* long-running process is the one of SchedSpec.  `output` names the entry
\* the command added.
CliScheduleUpgrade(component, version, scheduled_time, auto_approve) ==
    /\ ret = Returned
    /\ added < MaxEntries
    /\ output = <<>>
    /\ LET loaded == LoadSchedule(schedule_file)
           upgrade == ScheduledUpgrade(added + 1, component, version, scheduled_time, FALSE,
                                       BaseDuration(component),
                                       IF auto_approve THEN "approved" ELSE "pending")
           appended == Append(loaded, upgrade)
       IN  /\ added' = added + 1
           /\ output' = <<upgrade.id>>
           /\ schedule_file' = IF MixedTimes(appended) THEN schedule_file
                               ELSE SaveSchedule(schedule_file, SortByTime(appended), writable)
    /\ UNCHANGED <<scheduled_upgrades, wall_clock, writable, ret, runnerVars, saveVars,
                   procVars, input>>

SharedScheduleNext ==
    \/ SchedNext
    \/ \E c \in Components, v \in SchedVersions, t \in TimeInputs, a \in BOOLEAN :
          CliScheduleUpgrade(c, v, t, a)

SharedScheduleSpec == SchedulerInit /\ [][SharedScheduleNext]_vars

\* --------------------------------- a schedule left out of order on disk
\* The schedule file as an earlier process can leave it: two upgrades were
\* scheduled without a time (the second moved behind the first), a governance
\* upgrade was appended, and the first upgrade and the governance one were
\* cancelled.  The ids of these entries lie outside the ids of the run.
UnsortedSchedule ==
    <<ScheduledUpgrade(101, "story", "1.1.0", FirstWindow(0), TRUE, StoryDuration, "cancelled"),
      ScheduledUpgrade(102, "story", "1.1.0",
                       FirstWindow(0) + StoryDuration + ConflictBuffer, TRUE,
                       StoryDuration, "pending"),
      ScheduledUpgrade(103, "story", "1.2.0", 50, FALSE, GovernanceDuration, "cancelled")>>

\* a scheduler constructed on that file; no entry has been added in this run
WindowInit ==
    /\ RunnerInit
    /\ subject = "story"
    /\ upgrade_history = <<>>
    /\ schedule_file = SaveSchedule(NoScheduleFile, UnsortedSchedule, TRUE)
    /\ scheduled_upgrades = LoadSchedule(schedule_file)
    /\ wall_clock \in {t \in NowValues : \A s \in NowValues : t <= s}
    /\ added = 0
    /\ writable \in BOOLEAN
    /\ ret = Returned
    /\ save_pc = "idle"
    /\ temp_file = NoTempFile
    /\ file_complete = TRUE
    /\ old_file = schedule_file
    /\ save_failed = FALSE
    /\ faults = 0
    /\ input = <<>> /\ output = <<>>

WindowNext ==
    \/ \E c \in Components, a \in BOOLEAN : ScheduleUpgrade(c, "1.1.0", NoTime, a)
    \/ \E i \in 0..(Len(scheduled_upgrades) - 1) : ApproveUpgrade(i)
    \/ \E i \in 0..(Len(scheduled_upgrades) - 1) : CancelUpgrade(i)
    \/ Return

WindowSpec == WindowInit /\ [][WindowNext]_vars

\* ================================================== the monitoring loop
\* One round of monitoring_loop as far as the schedule goes (__main__.py:257-267):
\* the entries due within the hour are fetched, and for each of them that is
\* approved and whose time has come mark_completed is called with its component
\* and target version.  `due` holds the identities of the fetched entries; the
\* entries are the objects of the collection, so a status changed by an earlier
\* mark_completed is the status the loop reads.  perform_upgrade is not called.
RECURSIVE DriveDue(_, _, _)
DriveDue(upgrades, due, now) ==
    IF due = <<>> THEN upgrades
    ELSE LET i == CHOOSE k \in 1..Len(upgrades) : upgrades[k].id = Head(due)
             upgrade == upgrades[i]
         IN  IF upgrade.status = "approved" /\ upgrade.scheduled_time <= now
             THEN DriveDue(MarkCompletedFrom(upgrades, 1, upgrade.component,
                                             upgrade.target_version),
                           Tail(due), now)
             ELSE DriveDue(upgrades, Tail(due), now)

\* an exception of the round is caught and logged by the loop (__main__.py:277-281)
MonitoringLoop ==
    /\ ret = Returned
    /\ IF UpcomingRaises(scheduled_upgrades)
       THEN /\ ret' = [op |-> "monitoring_loop", raised |-> TRUE]
            /\ UNCHANGED <<scheduled_upgrades, schedule_file>>
       ELSE LET upcoming == UpcomingUpgrades(scheduled_upgrades, wall_clock + 60)
                due == [n \in 1..Len(upcoming) |-> upcoming[n].id]
            IN  /\ scheduled_upgrades' = DriveDue(scheduled_upgrades, due, wall_clock)
                /\ schedule_file' = IF scheduled_upgrades' # scheduled_upgrades
                                    THEN SaveSchedule(schedule_file, scheduled_upgrades', writable)
                                    ELSE schedule_file
                /\ ret' = [op |-> "monitoring_loop", raised |-> FALSE]
    /\ UNCHANGED <<wall_clock, added, writable, runnerVars, saveVars, procVars, callVars>>

LoopNext ==
    \/ SchedNext
    \/ MonitoringLoop

LoopSpec == SchedulerInit /\ [][LoopNext]_vars

\* --------------------------- a proposal for a version that is scheduled
\* proposal.upgrade_version is the string of the proposal (scheduler.py:151);
\* nothing keeps it apart from the versions given to schedule_upgrade.
ProposalNext ==
    \/ LoopNext
    \/ \E v \in SchedVersions, e \in GovEstimates : ScheduleGovernanceUpgrade(TRUE, v, TRUE, e)

ProposalSpec == SchedulerInit /\ [][ProposalNext]_vars

\* ======================================================= the HTTP surface
\* HealthAPI builds its own UpgradeScheduler (api.py:31-39), which loads the
\* schedule file once; `input` is that instance, `output` the last response.
HealthAPI(file) == [scheduled_upgrades |-> LoadSchedule(file)]

WeekHours == 24 * 7

\* what a handler leaves in the schedule file: a handler that saved would put
\* the collection of its own instance there
AfterHandler_Saves(file, upgrades) == SaveSchedule(file, upgrades, TRUE)

\* no handler calls save_schedule or any mutating operation (api.py:49-224)
AfterHandler(file, upgrades) == file

\* schedule_handler (api.py:185-214)
ScheduleResponse(upgrades, now) ==
    IF UpcomingRaises(upgrades)
    THEN [handler |-> "schedule", status |-> 500, total_scheduled |-> 0, upgrades |-> <<>>]
    ELSE [handler |-> "schedule", status |-> 200, total_scheduled |-> Len(upgrades),
          upgrades |-> UpcomingUpgrades(upgrades, now + WeekHours * 60)]

ScheduleHandler ==
    /\ input # <<>>
    /\ output' = <<ScheduleResponse(input.scheduled_upgrades, wall_clock)>>
    /\ schedule_file' = AfterHandler(schedule_file, input.scheduled_upgrades)
    /\ UNCHANGED <<input, scheduled_upgrades, wall_clock, added, writable, ret,
                   runnerVars, saveVars, procVars>>

\* health_handler, metrics_handler, status_handler and version_handler
\* (api.py:49-183, 216-224) use the API's own HealthChecker and VersionWatcher
\* and neither scheduler nor runner
OtherHandlers == {"health", "metrics", "status", "version"}

OtherHandler(handler) ==
    /\ input # <<>>
    /\ output' = <<[handler |-> handler, status |-> 200, total_scheduled |-> 0,
                    upgrades |-> <<>>]>>
    /\ schedule_file' = AfterHandler(schedule_file, input.scheduled_upgrades)
    /\ UNCHANGED <<input, scheduled_upgrades, wall_clock, added, writable, ret,
                   runnerVars, saveVars, procVars>>

HttpInit ==
    /\ RunnerInit
    /\ SchedInit
    /\ subject = "story"
    /\ upgrade_history = <<>>
    /\ input = HealthAPI(schedule_file)
    /\ output = <<>>

HttpNext ==
    \/ \E c \in Components, v \in SchedVersions, t \in {NoTime} \cup {<<x>> : x \in TimeInputs},
          a \in BOOLEAN : ScheduleUpgrade(c, v, t, a)
    \/ MonitoringLoop
    \/ Tick
    \/ Return
    \/ ScheduleHandler
    \/ \E h \in OtherHandlers : OtherHandler(h)

HttpSpec == HttpInit /\ [][HttpNext]_vars

\* =========================================== post-upgrade verification
\* _post_upgrade_verification on its own: the version output of the installed
\* binary and what the two check_all calls would report for the component
VersionOutputs == {PartialBinary, InitialVersion, "1.1.0", "1.1.0-stable"}

\* the unit state and the rest of the component's health at one check_all call
ProbeTimes == [state : ServiceStates, rest_healthy : BOOLEAN]

VerifyInit ==
    /\ AtRest
    /\ input \in [actual : VersionOutputs, expected : TargetVersions,
                  first : ProbeTimes, second : ProbeTimes]
    /\ output = <<>>

Verify ==
    /\ output = <<>>
    /\ LET p1 == Probe(input.first.state, input.first.rest_healthy)
           p2 == Probe(input.second.state, input.second.rest_healthy)
       IN  output' = <<[verdict |-> PostUpgradeVerification(input.actual, input.expected, p1, p2),
                        probes |-> VerificationProbes(input.actual, input.expected, p1)]>>
    /\ UNCHANGED <<input, runnerVars, schedVars, saveVars, procVars>>

VerifySpec == VerifyInit /\ [][Verify]_vars

\* ===================================================== pre-upgrade checks
\* _pre_upgrade_checks on two nodes that differ in their clients only: the same
\* interpreter and system report, a HealthChecker fresh from the constructor,
\* and for each node what its consensus client answers to /status and whether
\* its execution client is up.
GethUp(up) ==
    [service |-> "story_geth", docker_mode |-> FALSE,
     is_active |-> IF up THEN "active" ELSE "inactive",
     eth_syncing |-> [kind |-> "false", currentBlock |-> <<"0", "x", "0">>],
     eth_blockNumber |-> [kind |-> "result", result |-> <<"0", "x", "1", "0">>],
     net_peerCount |-> [kind |-> "result", result |-> <<"0", "x", "5">>],
     memory |-> None]

Clients == [status : BlockStatusAnswers, geth_up : BOOLEAN]

\* HealthChecker.check_all: the three probes in the order of the code; None
\* when _check_story raised
CheckAll(python, clients, system) ==
    LET story_geth == HealthOfStoryGeth(GethUp(clients.geth_up))
        story == CheckStoryBlockTime(NewHealthChecker, BlockProbe(clients.status), python)
    IN  IF story.value = None THEN None
        ELSE Some([story_geth |-> story_geth, story |-> story.value[1], system |-> system])

\* _pre_upgrade_checks: raised, or the value returned
PreflightResult(python, clients, system) ==
    LET health_status == CheckAll(python, clients, system)
    IN  IF health_status = None
        THEN [raised |-> TRUE, passed |-> FALSE]
        ELSE [raised |-> FALSE, passed |-> PreUpgradeChecks(health_status[1].system)]

PreflightInit ==
    /\ AtRest
    /\ input \in [python : Pythons, system : HealthInputs, one : Clients, other : Clients]
    /\ output = <<>>

Preflight ==
    /\ output = <<>>
    /\ output' = <<[one |-> PreflightResult(input.python, input.one, input.system),
                    other |-> PreflightResult(input.python, input.other, input.system)]>>
    /\ UNCHANGED <<input, runnerVars, schedVars, saveVars, procVars>>

PreflightSpec == PreflightInit /\ [][Preflight]_vars

\* ============================================ the loop of `monitor`
\* monitoring_loop call by call (__main__.py:235-281).  `input` is the frame
\* of the loop: the --once flag, the call it stands at, the locals
\* health_status (as the services found unhealthy) and updates (as the
\* components with an update), the ticks started so far (counted up to
\* MaxTicks) and the last "Monitoring error" logged; `output` is how the loop
\* ended.
MaxTicks == 2

Services == {"story_geth", "story", "system"}

\* the calls of one tick that can raise into the except clause of the loop
RaisingCalls == {"check_all", "check_for_updates", "get_upcoming_upgrades"}

\* the statement after a call that returned
AfterCall(at) ==
    CASE at = "check_all" -> "check_for_updates"
      [] at = "check_for_updates" -> "get_upcoming_upgrades"
      [] at = "get_upcoming_upgrades" -> "cleanup_old_backups"
      [] OTHER -> "sleep"

\* Mutant of AfterError: an error ends the loop in either mode.
AfterError_Stops(once) == "ended"

\* the except clause: raise in one-shot mode, otherwise sleep
AfterError(once) == IF once THEN "ended" ELSE "sleep"

\* after cleanup_old_backups: break in one-shot mode, otherwise sleep
AfterTick(once) == IF once THEN "ended" ELSE "sleep"

MonitorInit ==
    /\ AtRest
    /\ \E once \in BOOLEAN :
          input = [once |-> once, at |-> "check_all", unhealthy |-> {}, updates |-> {},
                   ticks |-> 1, logged |-> ""]
    /\ output = <<>>

\* one of the three calls of the tick returns or raises
TickCall(raises, unhealthy, updates) ==
    /\ input.at \in RaisingCalls
    /\ IF raises
       THEN /\ input' = [input EXCEPT !.at = AfterError(input.once), !.logged = input.at]
            /\ output' = IF AfterError(input.once) = "ended" THEN <<"raise">> ELSE <<>>
       ELSE /\ input' = [input EXCEPT
                            !.at = AfterCall(input.at),
                            !.unhealthy = IF input.at = "check_all" THEN unhealthy ELSE @,
                            !.updates = IF input.at = "check_for_updates" THEN updates ELSE @]
            /\ output' = output
    /\ UNCHANGED <<runnerVars, schedVars, saveVars, procVars>>

\* runner.cleanup_old_backups catches its own exceptions (runner.py:588-603)
CleanupOldBackups ==
    /\ input.at = "cleanup_old_backups"
    /\ input' = [input EXCEPT !.at = AfterTick(input.once)]
    /\ output' = IF AfterTick(input.once) = "ended" THEN <<"break">> ELSE <<>>
    /\ UNCHANGED <<runnerVars, schedVars, saveVars, procVars>>

\* asyncio.sleep(interval) returns and the while loop starts the next tick
Sleep ==
    /\ input.at = "sleep"
    /\ input' = [input EXCEPT !.at = "check_all", !.unhealthy = {}, !.updates = {},
                              !.ticks = IF @ < MaxTicks THEN @ + 1 ELSE @]
    /\ UNCHANGED <<output, runnerVars, schedVars, saveVars, procVars>>

\* SIGINT or SIGTERM: signal_handler calls sys.exit(0), which no except
\* clause of the loop catches (__main__.py:284-289)
SignalHandler ==
    /\ input.at # "ended"
    /\ input' = [input EXCEPT !.at = "ended"]
    /\ output' = <<"exit">>
    /\ UNCHANGED <<runnerVars, schedVars, saveVars, procVars>>

Tock ==
    \/ \E raises \in BOOLEAN, unhealthy \in SUBSET Services, updates \in SUBSET Components :
          TickCall(raises, unhealthy, updates)
    \/ CleanupOldBackups
    \/ Sleep

MonitorNext ==
    \/ Tock
    \/ SignalHandler

\* every call of the tick returns or raises (the requests carry timeouts) and
\* the sleep ends; a signal may or may not come
MonitorSpec == MonitorInit /\ [][MonitorNext]_vars /\ WF_vars(Tock)

\* ======================================= a log directory that rejects writes
\* One process of the command line (__main__.py:136-233): the `upgrade`
\* command builds an UpgradeRunner only, the schedule commands build an
\* UpgradeScheduler only.  The schedule file cannot be written in this run;
\* the history file is written or not call by call (Finally).
Commands == {"upgrade", "schedule"}

PersistInit ==
    /\ RunnerInit
    /\ SchedInit
    /\ ~writable
    /\ \E command \in Commands :
          /\ input = [command |-> command]
          /\ command = "upgrade" => schedule_file = NoScheduleFile
          /\ command = "schedule" => subject = "story" /\ upgrade_history = <<>>
    /\ output = <<>>

PersistNext ==
    \/ input.command = "upgrade" /\ Next
    \/ input.command = "schedule" /\ SchedNext

PersistSpec == PersistInit /\ [][PersistNext]_vars

\* ============================================= save_schedule, step by step
\* SchedSpec takes save_schedule as one step with the outcome SaveSchedule.
\* SaveSpec follows it statement by statement, with the process killed at any
\* point and a new process loading the file: an operation brings the
\* collection to its new value and calls save_schedule, which opens the
\* temporary file, dumps the entries into it, closes it and renames it over the
\* schedule file; any statement can raise, which the except branch logs.

\* what one operation can make of the collection before it calls save_schedule
\* (scheduler.py:123-124, 158, 202, 213, 225, 316-319)
ChangedCollections(upgrades, t) ==
    LET new == ScheduledUpgrade(added + 1, "story", "1.1.0", t - 10, FALSE,
                                StoryDuration, "pending")
    IN  {SortByTime(Append(upgrades, new)) : x \in {y \in {1} : added < MaxEntries}}
        \cup {SetStatus(upgrades, i, "approved") :
                 i \in {k \in 1..Len(upgrades) : ApprovableStatus(upgrades[k].status)}}
        \cup {SetStatus(upgrades, i, "cancelled") :
                 i \in {k \in 1..Len(upgrades) : CancellableStatus(upgrades[k].status)}}
        \cup {SetStatus(upgrades, i, "completed") :
                 i \in {k \in 1..Len(upgrades) : upgrades[k].status = "approved"}}
        \cup {SelectSeq(upgrades, LAMBDA u : Kept(u, t))}

\* open(temp_file, 'w') creates or truncates the temporary file and leaves the
\* schedule file alone (scheduler.py:80-81)
Opened_InPlace(file, whole, temp) ==
    [file |-> [exists |-> TRUE, data |-> <<>>], whole |-> FALSE, temp |-> temp]

Opened(file, whole, temp) ==
    [file |-> file, whole |-> whole,
     temp |-> [exists |-> TRUE, data |-> <<>>, complete |-> FALSE]]

\* temp_file.replace(self.schedule_file) (scheduler.py:84)
Replaced(temp) == [exists |-> TRUE, data |-> temp.data]

\* ---- an operation has changed the collection and calls save_schedule
BeginSave(upgrades) ==
    /\ save_pc = "idle"
    /\ upgrades \in ChangedCollections(scheduled_upgrades, wall_clock)
    /\ scheduled_upgrades' = upgrades
    /\ added' = IF Len(upgrades) > Len(scheduled_upgrades) THEN added + 1 ELSE added
    /\ save_pc' = "open"
    /\ UNCHANGED <<schedule_file, wall_clock, writable, ret, temp_file, file_complete,
                   old_file, save_failed, faults, runnerVars, procVars, callVars>>

\* ---- with open(temp_file, 'w') as f (scheduler.py:77-81)
OpenTemp(ok) ==
    /\ ok \/ faults < MaxFaults
    /\ faults' = IF ok THEN faults ELSE faults + 1
    /\ save_pc = "open"
    /\ IF ok
       THEN LET files == Opened(schedule_file, file_complete, temp_file)
            IN  /\ schedule_file' = files.file
                /\ file_complete' = files.whole
                /\ temp_file' = files.temp
                /\ save_pc' = "dump"
                /\ UNCHANGED save_failed
       ELSE /\ save_failed' = TRUE
            /\ save_pc' = "returned"
            /\ UNCHANGED <<schedule_file, file_complete, temp_file>>
    /\ UNCHANGED <<scheduled_upgrades, wall_clock, added, writable, ret, old_file, runnerVars, procVars, callVars>>

\* ---- json.dump(data, f): one more entry reaches the temporary file, or the
\* write raises; leaving the with block closes the file (scheduler.py:82-83)
DumpEntry(ok) ==
    /\ ok \/ faults < MaxFaults
    /\ faults' = IF ok THEN faults ELSE faults + 1
    /\ save_pc = "dump"
    /\ IF ~ok
       THEN /\ save_failed' = TRUE
            /\ save_pc' = "returned"
            /\ UNCHANGED temp_file
       ELSE /\ UNCHANGED save_failed
            /\ IF Len(temp_file.data) < Len(scheduled_upgrades)
               THEN /\ temp_file' = [temp_file EXCEPT !.data =
                          Append(@, ToDict(scheduled_upgrades[Len(temp_file.data) + 1]))]
                    /\ UNCHANGED save_pc
               ELSE /\ temp_file' = [temp_file EXCEPT !.complete = TRUE]
                    /\ save_pc' = "replace"
    /\ UNCHANGED <<scheduled_upgrades, schedule_file, wall_clock, added, writable, ret,
                   file_complete, old_file, runnerVars, procVars, callVars>>

\* ---- temp_file.replace(self.schedule_file), then the calendar export, which
\* catches its own exceptions (scheduler.py:84-89)
ReplaceFile(ok) ==
    /\ ok \/ faults < MaxFaults
    /\ faults' = IF ok THEN faults ELSE faults + 1
    /\ save_pc = "replace"
    /\ IF ok
       THEN /\ schedule_file' = Replaced(temp_file)
            /\ file_complete' = temp_file.complete
            /\ temp_file' = NoTempFile
            /\ UNCHANGED save_failed
       ELSE /\ save_failed' = TRUE
            /\ UNCHANGED <<schedule_file, file_complete, temp_file>>
    /\ save_pc' = "returned"
    /\ UNCHANGED <<scheduled_upgrades, wall_clock, added, writable, ret, old_file, runnerVars, procVars, callVars>>

\* ---- save_schedule and the operation that called it return
SaveReturns ==
    /\ save_pc = "returned"
    /\ save_pc' = "idle"
    /\ old_file' = schedule_file
    /\ save_failed' = FALSE
    /\ UNCHANGED <<scheduled_upgrades, schedule_file, wall_clock, added, writable, ret,
                   temp_file, file_complete, faults, runnerVars, procVars, callVars>>

\* ---- the process is killed in the middle of a save
Crash ==
    /\ faults < MaxFaults
    /\ faults' = faults + 1
    /\ save_pc \in {"open", "dump", "replace"}
    /\ save_pc' = "crashed"
    /\ UNCHANGED <<scheduled_upgrades, schedule_file, wall_clock, added, writable, ret,
                   temp_file, file_complete, old_file, save_failed, runnerVars, procVars, callVars>>

\* ---- a new process constructs its scheduler: load_schedule reads the file,
\* and keeps the empty collection when the file does not parse
Restart ==
    /\ save_pc = "crashed"
    /\ scheduled_upgrades' = IF file_complete THEN LoadSchedule(schedule_file) ELSE <<>>
    /\ save_pc' = "idle"
    /\ old_file' = schedule_file
    /\ save_failed' = FALSE
    /\ UNCHANGED <<schedule_file, wall_clock, added, writable, ret, temp_file,
                   file_complete, faults, runnerVars, procVars, callVars>>

SaveSpecInit ==
    /\ RunnerInit
    /\ SchedInit
    /\ subject = "story"
    /\ upgrade_history = <<>>
    /\ writable
    /\ input = <<>> /\ output = <<>>

SaveNext ==
    \/ \E u \in ChangedCollections(scheduled_upgrades, wall_clock) : BeginSave(u)
    \/ \E ok \in BOOLEAN : OpenTemp(ok)
    \/ \E ok \in BOOLEAN : DumpEntry(ok)
    \/ \E ok \in BOOLEAN : ReplaceFile(ok)
    \/ SaveReturns
    \/ Crash
    \/ Restart

SaveSpec == SaveSpecInit /\ [][SaveNext]_vars

\* ================================================================== claims

\* Entries of the history that this runner added
NewEntries == (Len(prior_history) + 1) .. Len(upgrade_history)

\* Steps of the current call that change the node or the disk, and the
\* service-manager calls among them
MutatingSteps == {"native", "backup", "download", "stop", "replace", "start",
                  "rollback_begin", "rb_stop", "rb_restore", "rb_start"}

NoMutation ==
    /\ \A i \in DOMAIN trace : trace[i].step \notin MutatingSteps
    /\ installed = at_entry.installed
    /\ service = at_entry.service
    /\ backup_dirs = at_entry.backup_dirs

\* C1: every perform_upgrade call, however it ends, appends exactly one record:
\* the step on which the call returns changes the history to the previous
\* history plus the call's record as new last entry, and no other step changes
\* the history.
C1_ExactlyOneRecordPerCall ==
    [][IF pc # "idle" /\ pc' = "idle"
       THEN upgrade_history' = Append(upgrade_history, upgrade_record)
       ELSE upgrade_history' = upgrade_history]_vars

\* a call has returned after a failed legacy step, and its record is there
C1_Witness ==
    /\ pc = "idle"
    /\ calls = 1
    /\ Len(upgrade_history) = Len(prior_history) + 1
    /\ ~upgrade_history[Len(upgrade_history)].success
    /\ upgrade_history[Len(upgrade_history)].backup_path # <<>>

\* C2 (as claimed): every record the runner appended has an end timestamp (the
\* start timestamp is set when the record is built), and every record of a
\* failed attempt has an error text.
C2_RecordsCarryEndTimeAndError ==
    \A i \in NewEntries :
        /\ upgrade_history[i].end_time # <<>>
        /\ (~upgrade_history[i].success => upgrade_history[i].error # <<>>)

\* C3: when the pre-upgrade checks fail the call is over: it returns failure,
\* no step that changes anything has run (no backup, no download, no stop, no
\* start), and binaries, units and backup directories are as the call found them.
C3_PreflightAbortMutatesNothing ==
    (Ran("pre_check", FALSE) \/ Ran("pre_check_raised", FALSE)) =>
        /\ pc = "finally"
        /\ ~result.success
        /\ ~upgrade_record.success
        /\ upgrade_record.backup_path = <<>>
        /\ NoMutation

C3_Witness ==
    /\ pc = "finally"
    /\ ~call.dry_run
    /\ Ran("pre_check", FALSE)

\* C4 (as claimed): a dry run never runs backup, download, stop or start, and
\* its record always has success = true and dry_run = true.
C4_DryRunAlwaysSucceeds ==
    (pc = "finally" /\ call.dry_run) =>
        /\ NoMutation
        /\ upgrade_record.dry_run
        /\ upgrade_record.success

\* C4 (amended): a dry run never runs backup, download, stop or start and its
\* record has dry_run = true; the record has success = true exactly when the
\* pre-upgrade checks passed.
C4_DryRunPurity ==
    (pc # "idle" /\ call.dry_run) =>
        /\ NoMutation
        /\ upgrade_record.dry_run
        /\ (pc = "finally" =>
               /\ upgrade_record.success = Ran("pre_check", TRUE)
               /\ result.success = upgrade_record.success)

C4_Witness ==
    /\ pc = "finally"
    /\ call.dry_run
    /\ upgrade_record.success

\* C5: when the StartService step of the upgrade fails, the call returns
\* failure, its record has success = false, and exactly one rollback was
\* attempted; no call attempts more than one rollback.
C5_StartFailureOneRollback ==
    /\ Count("rollback_begin") <= 1
    /\ (pc = "finally" /\ Ran("start", FALSE)) =>
           /\ ~result.success
           /\ ~upgrade_record.success
           /\ Count("rollback_begin") = 1
           /\ Count("rollback") = 1

C5_Witness ==
    /\ pc = "finally"
    /\ Ran("start", FALSE)
    /\ Count("rollback_begin") = 1

\* The steps the call has run since its rollback began
RollbackSteps ==
    LET b == CHOOSE i \in DOMAIN trace : trace[i].step = "rollback_begin"
    IN [i \in 1 .. (Len(trace) - b) |-> trace[b + i].step]

IsPrefix(p, q) == Len(p) <= Len(q) /\ \A i \in DOMAIN p : p[i] = q[i]

C7_HistoryAppendOnly ==
    /\ [](/\ Len(upgrade_history) =
                Len(prior_history) + calls - (IF pc = "idle" THEN 0 ELSE 1)
          /\ SubSeq(upgrade_history, 1, Len(prior_history)) = prior_history
          /\ \A i \in 1 .. Len(upgrade_history) : \A j \in 1 .. Len(upgrade_history) :
                 i < j => upgrade_history[i].start_time < upgrade_history[j].start_time)
    /\ [][/\ Len(upgrade_history') >= Len(upgrade_history)
          /\ \A i \in 1 .. Len(upgrade_history) :
                 upgrade_history'[i] = upgrade_history[i]]_vars

\* two calls, one failed and one succeeded, after a history that held an entry
C7_Witness ==
    /\ pc = "idle"
    /\ calls = 2
    /\ Len(prior_history) = 1
    /\ Len(upgrade_history) = 3
    /\ upgrade_history[2].success # upgrade_history[3].success

\* ---------------------------------------------------------------- scheduler
AllowedTransitions ==
    {<<"pending", "approved">>, <<"pending", "cancelled">>,
     <<"approved", "cancelled">>, <<"approved", "completed">>}

\* an operation of the scheduler runs in this step
Runs(op) == ret = Returned /\ ret'.op = op

\* C8: whatever operation the scheduler runs, an entry that is in the
\* collection before and after the step keeps its status or moves along
\* pending->approved, pending->cancelled, approved->cancelled or
\* approved->completed; so completed and cancelled are never left and pending
\* never becomes completed in one step.
C8_StatusTransitions ==
    [][\A i \in 1..Len(scheduled_upgrades), j \in 1..Len(scheduled_upgrades') :
           scheduled_upgrades[i].id = scheduled_upgrades'[j].id =>
               \/ scheduled_upgrades'[j].status = scheduled_upgrades[i].status
               \/ <<scheduled_upgrades[i].status, scheduled_upgrades'[j].status>>
                      \in AllowedTransitions]_vars

\* an entry has been completed and another one cancelled
C8_Witness ==
    \E i, j \in 1..Len(scheduled_upgrades) :
        /\ scheduled_upgrades[i].status = "completed"
        /\ scheduled_upgrades[j].status = "cancelled"

\* C9: approve_upgrade(index) returns True exactly when the index is in range
\* and the entry there is pending, cancel_upgrade(index) exactly when the index
\* is in range and the entry is pending or approved; when either returns False
\* the collection and the schedule file are as they were before the call.
C9_ApproveCancelGuards ==
    [][/\ Runs("approve_upgrade") =>
            /\ ret'.value = (/\ ret'.index \in 0..(Len(scheduled_upgrades) - 1)
                             /\ scheduled_upgrades[ret'.index + 1].status = "pending")
            /\ ~ret'.value => /\ scheduled_upgrades' = scheduled_upgrades
                              /\ schedule_file' = schedule_file
       /\ Runs("cancel_upgrade") =>
            /\ ret'.value = (/\ ret'.index \in 0..(Len(scheduled_upgrades) - 1)
                             /\ scheduled_upgrades[ret'.index + 1].status
                                    \in {"pending", "approved"})
            /\ ~ret'.value => /\ scheduled_upgrades' = scheduled_upgrades
                              /\ schedule_file' = schedule_file]_vars

\* approve_upgrade has refused an index that is in range, on an entry that is
\* no longer pending
C9_Witness ==
    /\ ret.op = "approve_upgrade"
    /\ ~ret.value
    /\ ret.index \in 0..(Len(scheduled_upgrades) - 1)
    /\ scheduled_upgrades[ret.index + 1].status \in {"completed", "cancelled"}

MatchingApproved(component, version) ==
    {i \in 1..Len(scheduled_upgrades) :
        /\ scheduled_upgrades[i].component = component
        /\ scheduled_upgrades[i].target_version = version
        /\ scheduled_upgrades[i].status = "approved"}

\* C10: mark_completed(component, version) sets the first approved entry with
\* that component and target version to completed and leaves every other entry
\* as it was; with no such entry the collection is unchanged; and a due-upgrades
\* query that returns never returns an entry that is completed.
C10_MarkCompletedFirstMatch ==
    [][/\ Runs("mark_completed") =>
            LET matching == MatchingApproved(ret'.component, ret'.version)
            IN  IF matching = {}
                THEN scheduled_upgrades' = scheduled_upgrades
                ELSE LET k == CHOOSE i \in matching : \A j \in matching : i <= j
                     IN  /\ Len(scheduled_upgrades') = Len(scheduled_upgrades)
                         /\ \A j \in 1..Len(scheduled_upgrades) :
                                scheduled_upgrades'[j] =
                                    IF j = k
                                    THEN [scheduled_upgrades[j] EXCEPT !.status = "completed"]
                                    ELSE scheduled_upgrades[j]
       /\ (Runs("get_upcoming_upgrades") /\ ~ret'.raised) =>
            \A n \in 1..Len(ret'.value), i \in 1..Len(scheduled_upgrades) :
                scheduled_upgrades[i].status = "completed" =>
                    ret'.value[n].id # scheduled_upgrades[i].id]_vars

\* after mark_completed the first of two matching entries is completed, the
\* second is still approved, and the due query returns the second only
C10_Witness ==
    /\ ret.op = "get_upcoming_upgrades"
    /\ ~ret.raised
    /\ \E i, j \in 1..Len(scheduled_upgrades) :
           /\ i < j
           /\ scheduled_upgrades[i].component = scheduled_upgrades[j].component
           /\ scheduled_upgrades[i].target_version = scheduled_upgrades[j].target_version
           /\ scheduled_upgrades[i].status = "completed"
           /\ scheduled_upgrades[j].status = "approved"
           /\ scheduled_upgrades[i].scheduled_time <= wall_clock + ret.hours * 60
           /\ ret.value = <<scheduled_upgrades[j]>>

\* the entries a due query with this horizon has to return
DueEntries(hours) ==
    {i \in 1..Len(scheduled_upgrades) :
        /\ scheduled_upgrades[i].status \in {"pending", "approved"}
        /\ scheduled_upgrades[i].scheduled_time <= wall_clock + hours * 60}

\* C11: get_upcoming_upgrades(hours) returns, and what it returns is exactly
\* the pending or approved entries scheduled at or before now plus the horizon,
\* in ascending order of scheduled time.  (Does not hold: the list comes back
\* in collection order, which schedule_governance_upgrade does not keep sorted,
\* and the call raises when a pending or approved entry has an aware time.)
C11_DueQueryExactAndOrdered ==
    ret.op = "get_upcoming_upgrades" =>
        /\ ~ret.raised
        /\ {ret.value[n].id : n \in 1..Len(ret.value)}
              = {scheduled_upgrades[i].id : i \in DueEntries(ret.hours)}
        /\ Len(ret.value) = Cardinality(DueEntries(ret.hours))
        /\ \A m, n \in 1..Len(ret.value) :
               m < n => ret.value[m].scheduled_time <= ret.value[n].scheduled_time

\* what cleanup has to leave of the collection: everything but the completed
\* and cancelled entries scheduled before the cutoff, in the order it had
AfterCleanup(upgrades, cutoff) ==
    SelectSeq(upgrades, LAMBDA u : \/ u.status \in {"pending", "approved"}
                                  \/ ~(u.scheduled_time < cutoff))

\* C12: cleanup_old_upgrades(days) removes exactly the completed or cancelled
\* entries scheduled before now minus days; pending and approved entries stay
\* whatever their age, and what stays keeps its order and contents.  (Does not
\* hold: with a completed or cancelled entry whose time is aware the call
\* raises and removes nothing.)
C12_CleanupRemovesExactlyOld ==
    [][Runs("cleanup_old_upgrades") =>
            scheduled_upgrades'
              = AfterCleanup(scheduled_upgrades, wall_clock - ret'.days * DayMinutes)]_vars

\* the pending or approved entries of a collection whose interval
\* [scheduled_time, scheduled_time + estimated_duration] holds the instant t
ConflictsAt(upgrades, t) ==
    {i \in 1..Len(upgrades) :
        /\ upgrades[i].status \in {"pending", "approved"}
        /\ upgrades[i].scheduled_time <= t
        /\ t <= upgrades[i].scheduled_time + upgrades[i].estimated_duration}

InFlight(step) == step \notin {"idle", "done", "exited"}

\* C15: two upgrades of one component are never in flight together: while one
\* process is inside perform_upgrade the other is not.  (Does not hold: nothing
\* keeps the second process from starting.)
C15_OneUpgradeInFlight == ~(InFlight(pc) /\ InFlight(peer.pc))

\* the steps between the start of StopService and the end of StartService
StopStartRegion == {"replace", "start"}

\* C16: a process that ended on a shutdown signal was not between the start of
\* StopService and the end of StartService when the signal ended it.  (Does not
\* hold: the signal ends the process at whatever step it has reached, and the
\* unit stays stopped.)
C16_ShutdownWaitsForUpgrade == pc = "exited" => shutdown[1] \notin StopStartRegion

\* ------------------------------------------------------------------- health
\* C17: a probe of the consensus client whose status answers catching_up=true
\* gives healthy=false, whatever the peer count and the number of app-hash
\* errors; a probe of the execution client whose eth_syncing result is a
\* progress object gives healthy=false, whatever the peer count.
C17_SyncingIsUnhealthy ==
    output # <<>> =>
        /\ (input.service = "story" /\ ServiceRunning(input)
              /\ input.status.kind = "result" /\ input.status.catching_up)
           => ~output[1].healthy
        /\ (input.service = "story_geth" /\ ServiceRunning(input)
              /\ input.eth_syncing.kind = "progress")
           => ~output[1].healthy

\* a consensus client that is catching up with enough peers, no app-hash error
\* and timely blocks has been probed and reported unhealthy for that reason
C17_Witness ==
    /\ output # <<>>
    /\ input.service = "story"
    /\ output[1].checks.catching_up = Some(TRUE)
    /\ output[1].checks.peer_count >= MinPeers
    /\ output[1].checks.app_hash_errors = 0
    /\ BlockTimeHealthy(output[1].checks, input.last_block_time)
    /\ ~output[1].healthy
    /\ output[1].message = "is catching up"

\* ----------------------------------------------------------------- versions
\* a is greater than b position by position, compared as numbers
LexGreater(a, b) ==
    \E k \in 1..Len(a) : /\ a[k] > b[k]
                         /\ \A j \in 1..(k - 1) : a[j] = b[j]

\* the tuples of numbers a version string was written from
WrittenFrom(version) == {t \in PartTuples : LStripV(version) = VersionText[t]}

\* C18: for two version strings whose tuples of numbers have the same length,
\* Version(a) > Version(b) is returned exactly when the tuple of a is
\* lexicographically greater than that of b, components compared as numbers;
\* no version is greater than itself, and a > b with b > c gives a > c.
C18_VersionOrderIsNumeric ==
    output # <<>> =>
        /\ \A a \in WrittenFrom(input.self.version), b \in WrittenFrom(input.other.version) :
               Len(a) = Len(b) => (output[1] <=> LexGreater(a, b))
        /\ input.self.version = input.other.version => ~output[1]
        /\ \A c \in VersionTexts :
               (output[1] /\ VersionGt(input.other, Version(c))) => VersionGt(input.self, Version(c))

\* 10 has been compared with 9 in the place where the two versions first differ
C18_Witness ==
    /\ output = <<TRUE>>
    /\ \E a \in WrittenFrom(input.self.version), b \in WrittenFrom(input.other.version) :
           /\ Len(a) = Len(b)
           /\ \E k \in 1..Len(a) : a[k] = 10 /\ b[k] = 9 /\ \A j \in 1..(k - 1) : a[j] = b[j]

RECURSIVE StripTrailingZeros(_)
StripTrailingZeros(parts) ==
    IF parts # <<>> /\ parts[Len(parts)] = 0
    THEN StripTrailingZeros(SubSeq(parts, 1, Len(parts) - 1))
    ELSE parts

\* C19: two versions that differ only by trailing zero components compare
\* equal: Version(a) > Version(b) is not returned.  (Does not hold: the longer
\* tuple is the greater one.)
C19_TrailingZerosCompareEqual ==
    output # <<>> =>
        \A a \in WrittenFrom(input.self.version), b \in WrittenFrom(input.other.version) :
            StripTrailingZeros(a) = StripTrailingZeros(b) => ~output[1]

\* ----------------------------------------------------------------- messages
DistinguishedOutcomes == {"aborted before any change", "rolled back", "rollback failed"}

\* C20: two failed attempts that ended differently (aborted before any change,
\* changed and rolled back, changed with the rollback failing too) were not
\* given the same message.  (Does not hold: the message after a rollback is
\* the same whether the rollback returned True or False.)
C20_MessageTellsOutcome ==
    (/\ output # <<>>
     /\ pc = "finally"
     /\ ~result.success
     /\ AttemptOutcome \in DistinguishedOutcomes
     /\ output[1].outcome \in DistinguishedOutcomes
     /\ AttemptOutcome # output[1].outcome)
    => result.message # output[1].message

\* ------------------------------------------------------------ native timeout
\* the attempt whose native script ran into the 30 minute limit is about to return
NativeTimedOut ==
    /\ pc = "finally"
    /\ Ran("native", FALSE)
    /\ upgrade_record.error = <<NativeMessage("timeout")>>

\* C21: an attempt whose native script timed out returns failure, its record
\* has success=false and the timeout as error text, and a rollback was
\* evaluated.  (Does not hold: the native path has no rollback at all.)
C21_NativeTimeoutFailsAndRollsBack ==
    NativeTimedOut =>
        /\ ~result.success
        /\ ~upgrade_record.success
        /\ Count("rollback_begin") = 1

\* ------------------------------------------------------- the monitoring loop
\* perform_upgrade has run for the component and version and has succeeded
UpgradedBy(history, upgrade) ==
    \E k \in 1..Len(history) :
        /\ history[k].component = upgrade.component
        /\ history[k].to_version = upgrade.target_version
        /\ history[k].success
        /\ ~history[k].dry_run

\* C23: a round of the monitoring loop completes an entry only after
\* perform_upgrade has been run for its component and target version and has
\* succeeded.  (Does not hold: the loop calls mark_completed and never the
\* runner.)
C23_CompletedOnlyAfterUpgrade ==
    [][(Runs("monitoring_loop") /\ ~ret'.raised) =>
          \A i \in 1..Len(scheduled_upgrades) :
              (scheduled_upgrades[i].status # "completed"
                 /\ scheduled_upgrades'[i].status = "completed")
              => UpgradedBy(upgrade_history', scheduled_upgrades[i])]_vars

\* ---------------------------------------------------------- the HTTP surface
\* a step of a handler: every step of the loop changes `ret` or the clock
HandlerStep == ret' = ret /\ wall_clock' = wall_clock

\* C22: no HTTP handler changes the schedule collection, the status of an
\* entry, the schedule file or the upgrade history, whatever the monitoring
\* loop has done before and does after.
C22_HandlersOnlyRead ==
    [][HandlerStep => UNCHANGED <<scheduled_upgrades, schedule_file, upgrade_history,
                                  history_file>>]_vars

\* the schedule handler has answered from its own instance after the loop has
\* changed the collection and the file
C22_Witness ==
    /\ output # <<>>
    /\ output[1].handler = "schedule"
    /\ output[1].status = 200
    /\ scheduled_upgrades # input.scheduled_upgrades
    /\ schedule_file.exists
    /\ LoadSchedule(schedule_file) = scheduled_upgrades

\* -------------------------------------------------------------- the watcher
\* a lookup of repo r returns
Lookup(r) == input'.lookups = input.lookups + 1 /\ output'[1].repo = r

\* C24: a lookup that returns within the lifetime of a cached release returns
\* that release and makes no request; a lookup started when the lifetime of
\* the cached release has passed, or with nothing cached, makes a request; a
\* lookup that fails leaves the cache as it was, one that succeeds with a
\* request caches what it returns.
C24_CacheLifetime ==
    [][\A r \in Repos : Lookup(r) =>
          LET cached == input.self.cached_versions[r]
              requested == input'.requests # input.requests
          IN  /\ (cached # None /\ input'.now - cached[1].at < CacheLifetime) =>
                     /\ ~requested
                     /\ output'[1].value = Some(cached[1].version)
              /\ (cached = None \/ input.now - cached[1].at >= CacheLifetime) => requested
              /\ output'[1].value = None =>
                     input'.self.cached_versions = input.self.cached_versions
              /\ (requested /\ output'[1].value # None) =>
                     input'.self.cached_versions[r][1].version = output'[1].value[1]]_vars

\* the second lookup of a repository returned the cached release, without a
\* request, one tick before the lifetime of the cache entry ended
C24_Witness ==
    /\ output # <<>>
    /\ input.lookups = 2
    /\ Len(input.requests) = 1
    /\ \E r \in Repos :
           /\ output[1].repo = r
           /\ input.self.cached_versions[r] # None
           /\ output[1].at - input.self.cached_versions[r][1].at = CacheLifetime - 1
           /\ output[1].value = Some(input.self.cached_versions[r][1].version)

\* C25: two outbound requests for the same repository are at least the
\* rate-limit interval apart.  (Does not hold: a request that raised is not
\* recorded, so the next one follows at once.)
C25_RequestsSpaced ==
    \A i, j \in 1..Len(input.requests) :
        (i < j /\ input.requests[i].repo = input.requests[j].repo) =>
            input.requests[j].at - input.requests[i].at >= RateLimitDelay

\* ------------------------------------------------------- the legacy sequence
LegacyOrder == <<"pre_check", "backup", "download", "verify", "stop", "replace", "start",
                 "post_verify">>

\* the forward steps the attempt has run so far, in the order they ran; a
\* verification that raised is a verification that did not succeed
ForwardSteps ==
    LET forward == SelectSeq(trace, LAMBDA e :
                       \E k \in 1..Len(LegacyOrder) :
                           e.step \in {LegacyOrder[k], "post_verify_raised"})
    IN  [k \in 1..Len(forward) |->
            [step |-> IF forward[k].step = "post_verify_raised" THEN "post_verify"
                      ELSE forward[k].step,
             ok |-> forward[k].ok]]

\* C26: in an attempt on the built-in path the steps run are an initial part
\* of preflight, backup, download, verify, stop, replace, start, post-verify,
\* each once; every step but the last one run has succeeded; and the attempt
\* reports success only after all eight have succeeded.
C26_LegacyStepOrder ==
    Count("native") = 0 =>
        /\ Len(ForwardSteps) <= Len(LegacyOrder)
        /\ \A k \in 1..Len(ForwardSteps) : ForwardSteps[k].step = LegacyOrder[k]
        /\ \A k \in 1..(Len(ForwardSteps) - 1) : ForwardSteps[k].ok
        /\ (pc = "finally" /\ result.success /\ ~call.dry_run) =>
               /\ Len(ForwardSteps) = Len(LegacyOrder)
               /\ \A k \in 1..Len(ForwardSteps) : ForwardSteps[k].ok

\* a second attempt has gone through all eight steps and reports success after
\* a first one stopped at a failed step
C26_Witness ==
    /\ pc = "finally"
    /\ result.success
    /\ ~call.dry_run
    /\ Len(ForwardSteps) = Len(LegacyOrder)
    /\ calls = 2
    /\ \E k \in 1..Len(upgrade_history) : ~upgrade_history[k].success

\* --------------------------------------------------------- mid-upgrade failure
\* the attempt failed at binary verification or at a later step
MidUpgradeFailure ==
    /\ pc = "finally"
    /\ ~result.success
    /\ Count("native") = 0
    /\ Count("verify") = 1

\* C27: a mid-upgrade failure is followed by a rollback: no failed attempt
\* returns with the service stopped by it and no restart attempted.  (Does
\* not hold: only a failed start and a failed post-verification are followed
\* by a rollback; a failed _replace_binary returns with the unit inactive.)
C27_NeverLeftStopped ==
    (MidUpgradeFailure /\ Ran("stop", TRUE) /\ service[call.component] = "inactive")
    => (Count("rollback_begin") = 1 /\ Count("rb_start") = 1)

\* ------------------------------------------------------------ sorted schedule
\* by scheduled time, entries of equal time in the order they were added
SortedByTime(upgrades) ==
    \A i, j \in 1..Len(upgrades) :
        i < j => \/ upgrades[i].scheduled_time < upgrades[j].scheduled_time
                 \/ /\ upgrades[i].scheduled_time = upgrades[j].scheduled_time
                    /\ upgrades[i].id < upgrades[j].id

\* C28: after schedule_upgrade or schedule_governance_upgrade has added an
\* entry the collection is sorted by scheduled time, ties in insertion order.
\* (Does not hold: schedule_governance_upgrade appends without sorting.)
C28_SortedAfterAdd ==
    [][((Runs("schedule_upgrade") \/ Runs("schedule_governance_upgrade"))
          /\ Len(scheduled_upgrades') = Len(scheduled_upgrades) + 1)
       => SortedByTime(scheduled_upgrades')]_vars

\* -------------------------------------------------------- raising sub-checks
\* a sub-check that feeds the verdict of the consensus probe was run and raised
GatingSubCheckRaised(env) ==
    \/ ~env.docker_mode /\ env.is_active = "raises"
    \/ ServiceRunning(env) /\ env.status.kind \in {"raises", "malformed"}
    \/ ServiceRunning(env) /\ env.status.kind \in {"no_result", "result"}
          /\ env.net_info.kind = "raises"
    \/ env.journal.kind = "raises"

\* C29: a consensus probe in which a gating sub-check raised returns (the
\* exception does not reach the caller) and does not report healthy=true, a
\* failed log read for app-hash errors included.  (Does not hold: a failed log
\* read leaves app_hash_errors at 0, the healthy value.)
C29_RaisedSubCheckIsUnhealthy ==
    (output # <<>> /\ input.service = "story" /\ GatingSubCheckRaised(input))
    => ~output[1].healthy

\* the last probe got a block time from the node
ObtainedBlockTime ==
    /\ output[1].status.kind = "result"
    /\ output[1].status.latest_block_time.kind \in {"seconds", "nanos"}

\* C30: the first probe of a service never reports slow block production; a
\* later probe that passes the other gates reports it exactly when the latest
\* block time minus the stored one exceeds the variance; the stored timestamp
\* is the latest block time after every probe that obtained one and is
\* unchanged by a probe that did not.  (Does not hold: a block time that
\* fromisoformat rejects makes the probe raise with the stored one unchanged.)
C30_BlockTimeCache ==
    output # <<>> =>
        LET before == output[1].before.last_block_times["story"]
            stored == input.self.last_block_times["story"]
            latest == output[1].status.latest_block_time.seconds
            slow == /\ output[1].value # None
                    /\ output[1].value[1].message = "has slow block production"
        IN  /\ before = None => ~slow
            /\ (before # None /\ ObtainedBlockTime /\ ~output[1].status.catching_up)
                  => (slow <=> latest - before[1] > BlockTimeVariance)
            /\ ObtainedBlockTime => stored = Some(latest)
            /\ ~ObtainedBlockTime => stored = before

\* the ids of the entries of a collection
Ids(upgrades) == {upgrades[i].id : i \in 1..Len(upgrades)}

\* the step is an operation of the scheduler while the file cannot be written
UnwritableStep == ~writable /\ ret = Returned /\ ret' # Returned

\* the step is the finally block of perform_upgrade with a failed history save
FailedHistorySave == pc = "finally" /\ pc' = "idle" /\ history_file' = history_file

\* C31: when writing the schedule file or the history file fails, the
\* operation does not raise and returns its normal result, the collection or
\* the history in memory holds the change, and later operations of the process
\* work on it: queries answer from the collection in memory, and the history in
\* memory holds one record per finished call whatever became of the file.
C31_WriteFailureKeepsMemory ==
    /\ [][UnwritableStep =>
            /\ schedule_file' = schedule_file
            /\ ret'.op = "schedule_upgrade" =>
                  IF ret'.raised
                  THEN MixedTimes(scheduled_upgrades') \/ WindowRaises(scheduled_upgrades)
                  ELSE /\ ret'.id \in Ids(scheduled_upgrades')
                       /\ Len(scheduled_upgrades') = Len(scheduled_upgrades) + 1
            /\ (ret'.op = "schedule_governance_upgrade" /\ ret'.value # <<>>) =>
                  /\ ret'.value[1] \in Ids(scheduled_upgrades')
                  /\ Len(scheduled_upgrades') = Len(scheduled_upgrades) + 1
            /\ (ret'.op = "approve_upgrade" /\ ret'.value) =>
                  scheduled_upgrades'[ret'.index + 1].status = "approved"
            /\ (ret'.op = "cancel_upgrade" /\ ret'.value) =>
                  scheduled_upgrades'[ret'.index + 1].status = "cancelled"
            /\ ret'.op = "mark_completed" =>
                  \A i \in 1..Len(scheduled_upgrades) :
                     (/\ Matches(scheduled_upgrades[i], ret'.component, ret'.version)
                      /\ \A j \in 1..(i - 1) :
                            ~Matches(scheduled_upgrades[j], ret'.component, ret'.version))
                     => scheduled_upgrades'[i].status = "completed"
            /\ ret'.op = "cleanup_old_upgrades" =>
                  ret'.raised = CleanupRaises(scheduled_upgrades)]_vars
    /\ [][FailedHistorySave =>
            /\ result # NoResult
            /\ upgrade_history' = Append(upgrade_history, upgrade_record)]_vars
    /\ [](/\ (ret # Returned /\ ret.op = "get_upcoming_upgrades" /\ ~ret.raised) =>
                ret.value = UpcomingUpgrades(scheduled_upgrades, wall_clock + ret.hours * 60)
          /\ pc = "idle" => Len(upgrade_history) = Len(prior_history) + calls)

\* no write of the schedule file has succeeded, and a query lists an entry that
\* the file never held
C31_Witness ==
    /\ input.command = "schedule"
    /\ ~writable
    /\ schedule_file = NoScheduleFile
    /\ ret # Returned /\ ret.op = "get_upcoming_upgrades" /\ ~ret.raised
    /\ Len(ret.value) > 0

\* whether the unit was active, and the component healthy, at a check_all call
RunningAt(time) == time.state = "active"
HealthyAt(time) == time.state = "active" /\ time.rest_healthy

\* C32: post-upgrade verification succeeds exactly when the installed version
\* contains the expected one and the last probe taken reports the service
\* running; at most two probes are taken, the second only after an unhealthy
\* first one.
C32_VerificationVerdict ==
    output # <<>> =>
        LET last == IF output[1].probes = 2 THEN input.second ELSE input.first
        IN  /\ output[1].probes <= 2
            /\ output[1].probes = 2 => ~HealthyAt(input.first)
            /\ Contains(input.actual, input.expected) =>
                  (output[1].probes = 2 <=> ~HealthyAt(input.first))
            /\ output[1].verdict <=>
                  (Contains(input.actual, input.expected) /\ RunningAt(last))

\* the unit was down at the first probe and up at the second: the call succeeds
C32_Witness ==
    /\ output # <<>>
    /\ Contains(input.actual, input.expected)
    /\ ~RunningAt(input.first)
    /\ RunningAt(input.second)
    /\ output[1].probes = 2
    /\ output[1].verdict

\* C33: two runs of the pre-upgrade checks that differ only in the state of
\* the consensus or execution client give the same result.  (Does not hold: a
\* block time that the interpreter cannot parse makes check_all raise on the
\* node whose consensus client answers, and not on the node where it is down.)
C33_PreflightIgnoresClients ==
    output # <<>> => output[1].one = output[1].other

\* C34: in continuous mode no error inside a tick stops the loop: a call that
\* raises sends the loop to its sleep, from which another tick starts unless a
\* signal ends the process, and the loop ends by a signal only; in one-shot
\* mode the loop runs one tick and ends.
C34_LoopSurvivesErrors ==
    /\ [][(input.at \in RaisingCalls /\ ~input.once /\ input'.logged # input.logged)
            => input'.at = "sleep"]_vars
    /\ []((~input.once /\ input.at = "ended") => output = <<"exit">>)
    /\ []((~input.once /\ input.at = "sleep") => <>(input.at \in {"check_all", "ended"}))
    /\ [](input.once => input.ticks = 1)
    /\ [](input.once => <>(input.at = "ended"))

\* continuous mode: the first tick raised in check_all, and the second tick has
\* got as far as its scheduler call
C34_Witness ==
    /\ ~input.once
    /\ input.ticks = 2
    /\ input.logged = "check_all"
    /\ input.at = "get_upcoming_upgrades"

\* the records of a history file
Persisted(file) == {file.data[i] : i \in 1..Len(file.data)}

\* C35: with two runners on one history file, a record that is in the
\* persisted log stays there: no save removes a record written by the other
\* runner.  (Does not hold: each runner dumps the list it loaded at
\* construction plus its own records.)
C35_PersistedRecordsStay ==
    [][Persisted(history_file) \subseteq Persisted(history_file')]_vars

\* the ids of the entries in a schedule file
FileIds(file) == {file.data[i].id : i \in 1..Len(file.data)}

\* C36: with two schedulers on one schedule file, an entry that one instance
\* added and saved is not removed from the file by a later operation of the
\* other instance.  (Does not hold: every save dumps the collection of the
\* saving instance, which loaded the file before the entry was there.)
C36_SavedEntryStays ==
    [][(output # <<>> /\ output[1] \in FileIds(schedule_file))
          => output[1] \in FileIds(schedule_file')]_vars

\* C37: the time get_next_maintenance_window returns, which is the time of the
\* entry schedule_upgrade adds when no time is given, lies in the interval of
\* no pending or approved entry of the collection.  (Does not hold: the loop
\* passes over the collection once, so a shift can land in the interval of an
\* entry that stands earlier in the list.)
C37_WindowIsFree ==
    [][Runs("schedule_upgrade") =>
          \A n \in 1..Len(scheduled_upgrades') :
              (scheduled_upgrades'[n].id = ret'.id /\ scheduled_upgrades'[n].aware) =>
                  ConflictsAt(scheduled_upgrades, scheduled_upgrades'[n].scheduled_time) = {}]_vars


\* C38: the installed binary of a component is overwritten, by ReplaceBinary or
\* by the restore step of a rollback, only while that component's service is
\* stopped: no step of ReplaceBinary or RollbackRestore changes the binary of a
\* component whose service is active.
C38_WriteOnlyWhenStopped ==
    [][\A c \in DOMAIN installed :
          (pc \in {"replace", "rb_restore"} /\ installed'[c] # installed[c])
              => service[c] # "active"]_vars

\* C39: in every round of the monitoring loop, each entry whose status changes
\* to completed was approved and had scheduled_time <= now, also when several
\* approved entries share the component and the target version.
C39_CompletedOnlyWhenDue ==
    [][(Runs("monitoring_loop") /\ ~ret'.raised) =>
          \A i \in 1..Len(scheduled_upgrades) :
              (scheduled_upgrades[i].status # "completed"
                 /\ scheduled_upgrades'[i].status = "completed")
              => /\ scheduled_upgrades[i].status = "approved"
                 /\ scheduled_upgrades[i].scheduled_time <= wall_clock]_vars

\* C40: when the Download step has reported success, the binary file at the
\* path it returned exists while the Verify and ReplaceBinary steps use it.
C40_DownloadedBinaryStays ==
    pc \in {"verify", "stop", "replace"} => temp_binary.exists

====
